---- MODULE Spec2Model ----
(***************************************************************************)
(* Serverless chat backend: the connection registry, the message log and   *)
(* the fan-out broadcast, as run by the four Lambda handlers ($connect,    *)
(* $disconnect, sendMessage, getMessages) over the two DynamoDB tables     *)
(* and the API Gateway management API.                                     *)
(*                                                                         *)
(* Every handler invocation is a process that advances from one await to   *)
(* the next; invocations of different slots interleave at the awaits.      *)
(***************************************************************************)
EXTENDS Integers, Sequences, FiniteSets, TLC

(***************************************************************************)
(* Bounds of the model                                                     *)
(***************************************************************************)
MaxInvocations == 3      \* handler invocations started in one behaviour
MaxTicks == 1            \* milliseconds the clock advances in one behaviour
StartTime == 998         \* Date.now() of the initial state
Overflow == 1            \* messages a stored room holds beyond a limit
MaxCalls == 5            \* calls and callbacks of the browser client

Slots == {1, 2}          \* concurrently running Lambda invocations
ConnIds == {"c1", "c2"}  \* connection ids handed out by the transport

(***************************************************************************)
(* JavaScript values                                                       *)
(***************************************************************************)
\* an absent (undefined) string-valued property
Absent == "<undefined>"

\* a JSON / JavaScript value: type tag, characters of a string, a number
JSUndefined == [t |-> "undefined", s |-> <<>>, n |-> 0]
JSNull == [t |-> "null", s |-> <<>>, n |-> 0]
JSNumber(k) == [t |-> "number", s |-> <<>>, n |-> k]
JSString(chars) == [t |-> "string", s |-> chars, n |-> 0]

\* the characters String.prototype.trim removes
WhiteSpace == {" ", "\t", "\n"}

RECURSIVE TrimStart(_)
TrimStart(s) ==
  IF s # <<>> /\ Head(s) \in WhiteSpace THEN TrimStart(Tail(s)) ELSE s

RECURSIVE TrimEnd(_)
TrimEnd(s) ==
  IF s # <<>> /\ s[Len(s)] \in WhiteSpace
    THEN TrimEnd(SubSeq(s, 1, Len(s) - 1))
    ELSE s

\* a trim of the leading white space only
TrimLeading(s) == TrimStart(s)

\* String.prototype.trim
Trim(s) == TrimEnd(TrimStart(s))

\* JavaScript truthiness (the `!content` test)
Truthy(v) ==
  CASE v.t = "undefined" -> FALSE
    [] v.t = "null" -> FALSE
    [] v.t = "number" -> v.n # 0
    [] v.t = "string" -> v.s # <<>>
    [] OTHER -> TRUE

\* the validation without the trim() test
ValidContentNoTrim(content) ==
  /\ Truthy(content)
  /\ content.t = "string"

\* sendMessage.ts line 55, negated: the content passes validation
ValidContent(content) ==
  /\ Truthy(content)
  /\ content.t = "string"
  /\ Trim(content.s) # <<>>

(***************************************************************************)
(* Decimal rendering of numbers, as template literals do                   *)
(***************************************************************************)
Digit(d) ==
  CASE d = 0 -> "0" [] d = 1 -> "1" [] d = 2 -> "2" [] d = 3 -> "3"
    [] d = 4 -> "4" [] d = 5 -> "5" [] d = 6 -> "6" [] d = 7 -> "7"
    [] d = 8 -> "8" [] d = 9 -> "9"

RECURSIVE ToDecimal(_)
ToDecimal(k) ==
  IF k < 10 THEN <<Digit(k)>> ELSE ToDecimal(k \div 10) \o <<Digit(k % 10)>>

(***************************************************************************)
(* String order of DynamoDB sort keys (UTF-8 code units)                   *)
(***************************************************************************)
CharCode(c) ==
  CASE c = "#" -> 35 [] c = "-" -> 45
    [] c = "0" -> 48 [] c = "1" -> 49 [] c = "2" -> 50 [] c = "3" -> 51
    [] c = "4" -> 52 [] c = "5" -> 53 [] c = "6" -> 54 [] c = "7" -> 55
    [] c = "8" -> 56 [] c = "9" -> 57
    [] c = "a" -> 97 [] c = "b" -> 98
    [] OTHER -> 127

RECURSIVE StrLess(_, _)
StrLess(a, b) ==
  IF a = <<>> THEN b # <<>>
  ELSE IF b = <<>> THEN FALSE
  ELSE IF Head(a) = Head(b) THEN StrLess(Tail(a), Tail(b))
  ELSE CharCode(Head(a)) < CharCode(Head(b))

(***************************************************************************)
(* Program constants                                                       *)
(***************************************************************************)
\* a default room of another name
LobbyRoom == "lobby"

\* the room of a request that names none
DEFAULT_ROOM == "global"
DefaultUserId == "anonymous"
DefaultUsername == "Anonymous"
TtlSeconds == 24 * 60 * 60
DefaultLimit == 50
LimitCap == 100

(***************************************************************************)
(* The two tables.  A table is the set of its items; a put replaces the    *)
(* item that has the same primary key.                                     *)
(***************************************************************************)
\* a put that adds the item and keeps the one it should replace
saveConnectionAppend(table, connection) == table \cup {connection}

\* PutCommand on the connections table (hash key connectionId)
saveConnection(table, connection) ==
  {r \in table : r.connectionId # connection.connectionId} \cup {connection}

\* a delete that reports success and removes nothing
deleteConnectionKeep(table, connectionId) == table

\* a delete that empties the table
deleteConnectionAll(table, connectionId) == {}

\* DeleteCommand on the connections table; deleting an absent key succeeds
deleteConnection(table, connectionId) ==
  {r \in table : r.connectionId # connectionId}

\* ScanCommand on the connections table: all items, no filter
getAllConnections(table) == table

\* a Message whose sort key leads with the random suffix
NewMessageSuffixFirst(userId, username, content, roomId, time, rnd) ==
  LET messageId == ToDecimal(time) \o <<"-">> \o rnd
      sortKey == rnd \o <<"#">> \o ToDecimal(time)
  IN [roomId |-> roomId, sortKey |-> sortKey, messageId |-> messageId,
      userId |-> userId, username |-> username, content |-> content,
      createdAt |-> time]

\* the Message built by saveMessage from Date.now() and Math.random()
NewMessage(userId, username, content, roomId, time, rnd) ==
  LET messageId == ToDecimal(time) \o <<"-">> \o rnd
      sortKey == ToDecimal(time) \o <<"#">> \o messageId
  IN [roomId |-> roomId, sortKey |-> sortKey, messageId |-> messageId,
      userId |-> userId, username |-> username, content |-> content,
      createdAt |-> time]

\* PutCommand on the messages table (hash key roomId, range key sortKey)
saveMessage(table, message) ==
  {m \in table : ~(m.roomId = message.roomId /\ m.sortKey = message.sortKey)}
    \cup {message}

\* the items of a set of messages, greatest sort key first
RECURSIVE Descending(_)
Descending(S) ==
  IF S = {} THEN <<>>
  ELSE LET top == CHOOSE m \in S :
                    \A o \in S \ {m} : StrLess(o.sortKey, m.sortKey)
       IN <<top>> \o Descending(S \ {top})

Reverse(seq) == [k \in 1..Len(seq) |-> seq[Len(seq) + 1 - k]]

Min(a, b) == IF a <= b THEN a ELSE b

\* the query with ScanIndexForward true: the oldest items, reversed
getMessagesOldest(table, roomId, limit) ==
  LET found == Reverse(Descending({m \in table : m.roomId = roomId}))
  IN Reverse(SubSeq(found, 1, Min(limit, Len(found))))

\* the query without the reverse(): newest first
getMessagesNewestFirst(table, roomId, limit) ==
  LET found == Descending({m \in table : m.roomId = roomId})
  IN SubSeq(found, 1, Min(limit, Len(found)))

\* QueryCommand by roomId, ScanIndexForward false, Limit; then reverse()
getMessages(table, roomId, limit) ==
  LET found == Descending({m \in table : m.roomId = roomId})
  IN Reverse(SubSeq(found, 1, Min(limit, Len(found))))

(***************************************************************************)
(* Handler responses                                                       *)
(***************************************************************************)
NoResponse ==
  [statusCode |-> 0, text |-> "", error |-> "", success |-> FALSE,
   messageId |-> <<>>]
TextResponse(code, text) == [NoResponse EXCEPT !.statusCode = code, !.text = text]
ErrorResponse(code, err) == [NoResponse EXCEPT !.statusCode = code, !.error = err]
SuccessResponse(messageId) ==
  [NoResponse EXCEPT !.statusCode = 200, !.success = TRUE,
                     !.messageId = messageId]

(***************************************************************************)
(* Requests                                                                *)
(***************************************************************************)
\* queryStringParameters of a $connect event
QueryParams ==
  { [userId |-> Absent, username |-> Absent],
    [userId |-> "u1", username |-> "Alice"],
    [userId |-> "", username |-> "Bob"] }

\* the parameters used where invocations run concurrently
RaceParams == { [userId |-> "u1", username |-> "Alice"] }

\* event.body of a sendMessage / getMessages event:
\*   json     "missing" (no body), "invalid" (not JSON), "null", "scalar"
\*            (a JSON number, string or boolean) or "object"
\*   data     of an object body: "absent", "scalar" or "object"
\*   the other fields are the properties of an object data
NoBody ==
  [json |-> "missing", data |-> "absent", content |-> JSUndefined,
   roomId |-> Absent, userId |-> Absent, username |-> Absent, limit |-> JSUndefined]
JsonBody(kind) == [NoBody EXCEPT !.json = kind]
DataBody(kind) == [NoBody EXCEPT !.json = "object", !.data = kind]
SendBody(content, roomId, userId, username) ==
  [NoBody EXCEPT !.json = "object", !.data = "object", !.content = content,
                 !.roomId = roomId, !.userId = userId, !.username = username]
GetBody(roomId, limit) ==
  [NoBody EXCEPT !.json = "object", !.data = "object", !.roomId = roomId,
                 !.limit = limit]

\* only the SyntaxError of JSON.parse, not the TypeError of null.data
ParseThrowsSyntaxOnly(body) == body.json = "invalid"

\* JSON.parse(event.body || '{}') followed by the read of body.data throws
ParseThrows(body) == body.json \in {"invalid", "null"}

\* body.data || {}: the object the handler destructures
Payload(body) ==
  IF body.json = "object" /\ body.data = "object" THEN body ELSE NoBody

(***************************************************************************)
(* State                                                                   *)
(***************************************************************************)
VARIABLES
  connections,  \* the connections table (Connection Registry)
  messages,     \* the messages table (Message Log)
  open,         \* connection ids whose WebSocket channel exists
  now,          \* the latest value read from Date.now(), in milliseconds
  started,      \* number of handler invocations started so far
  inv,          \* per slot: the running (or last finished) invocation
  client        \* the browser client: the state of useWebSocket

vars == <<connections, messages, open, now, started, inv, client>>

\* Math.random().toString(36).substring(2, 9)
RandomSuffixes == {<<"a">>, <<"b">>}

\* the suffix drawn where invocations run concurrently: two sends of the
\* same millisecond and room then collide, sends of different milliseconds
\* do not
RaceSuffixes == {<<"a">>}

NoFrame == [type |-> "", data |-> <<>>]

\* an invocation that has not started
IdleInvocation ==
  [kind |-> "idle",          \* which handler runs
   pc |-> "idle",            \* the await it is suspended at
   connectionId |-> "",      \* event.requestContext.connectionId
   body |-> NoBody,          \* event.body
   params |-> [userId |-> Absent, username |-> Absent],
                             \* connect: event.queryStringParameters
   item |-> {},              \* connect: the Connection it stores
   sender |-> {},            \* sendMessage: the sender record it found
   message |-> {},           \* sendMessage: the Message under construction
   query |-> [roomId |-> "", limit |-> 0],
                             \* getMessages: the arguments of the query
   frame |-> NoFrame,        \* the BroadcastMessage being delivered
   exclude |-> Absent,       \* broadcastMessage: excludeConnectionId
   snapshot |-> {},          \* broadcastMessage: the connections it read
   listed |-> FALSE,         \* broadcastMessage: the read has completed
   sends |-> [c \in ConnIds |-> "none"],
                             \* state of the sendToConnection promise per
                             \* recipient: none, pending, deleting,
                             \* fulfilled, rejected
   posts |-> [c \in ConnIds |-> <<>>],
                             \* frames posted to each connection
   outcome |-> [c \in ConnIds |-> "none"],
                             \* result of the post: delivered, gone, failed
   persisted |-> FALSE,      \* its PutCommand on the messages table succeeded
   deleted |-> {},           \* connection ids its DeleteCommands removed
   restored |-> {},          \* of these, the ids a later connect stored again
   replaced |-> {},          \* connect: the records its PutCommand replaced
   removed |-> {},           \* disconnect: the records its DeleteCommand removed
   faults |-> {},            \* the store operations of it that failed
   response |-> NoResponse]  \* what the handler returned

(***************************************************************************)
(* Browser client: composables/useWebSocket.ts                             *)
(***************************************************************************)
\* event.data of a message event:
\*   json    "invalid" (not JSON), "null", "scalar" or "object"
\*   type    the type property of an object, Absent when it is not a string
\*   array   whether the data property is an array
\*   items   the elements of an array data; the one object of another data
\*           (none when data is missing)
WireFrame(json, type, array, items) ==
  [json |-> json, type |-> type, array |-> array, items |-> items]

NoWire == WireFrame("none", Absent, FALSE, <<>>)

\* JSON.stringify of a BroadcastMessage: the data of a messageHistory is
\* the array of messages, the data of any other frame one object
Wire(frame) ==
  WireFrame("object", frame.type, frame.type = "messageHistory", frame.data)

\* the module-level state before any connect: lines 35-38
IdleClient ==
  [socket |-> Absent,        \* socket.value: the connection id of the
                             \* current WebSocket, Absent for null
   readyState |-> [c \in ConnIds |-> "unused"],
                             \* of the WebSocket created for each id:
                             \* unused, connecting, open, closing, closed
   isConnected |-> FALSE,
   messages |-> <<>>,
   connectionError |-> Absent,
   outbox |-> [c \in ConnIds |-> <<>>],
                             \* requests sent on each socket, not yet taken
   calls |-> 0,              \* calls and callbacks so far
   last |-> [call |-> "none", socket |-> Absent, wire |-> NoWire],
   pushed |-> {}]            \* the entries appended by newMessage frames
                             \* since the last disconnect
                             \* the latest call or callback: its name, the
                             \* socket that raised it, the frame it carried

\* what messages.value.push(data) appends
Pushed(wire) ==
  IF ~wire.array /\ Len(wire.items) = 1
    THEN wire.items[1] ELSE [nested |-> wire.items]

\* a handler that appends the messages of a history to the list
handleMessageMerge(state, wire) ==
  IF wire.json # "object"
    THEN [state EXCEPT !.connectionError = "Invalid message"]
  ELSE IF wire.type = Absent
    THEN [state EXCEPT !.connectionError = "Invalid message type"]
  ELSE IF wire.type = "messageHistory"
    THEN [state EXCEPT !.messages = @ \o (IF wire.array THEN wire.items ELSE <<>>)]
  ELSE IF wire.type = "newMessage"
    THEN [state EXCEPT !.messages = Append(@, Pushed(wire))]
  ELSE [state EXCEPT !.connectionError = "Unknown message type"]

\* handleMessage, lines 92-117, applied to the parsed frame
handleMessage(state, wire) ==
  IF wire.json # "object"
    THEN [state EXCEPT !.connectionError = "Invalid message"]
  ELSE IF wire.type = Absent
    THEN [state EXCEPT !.connectionError = "Invalid message type"]
  ELSE IF wire.type = "messageHistory"
    THEN [state EXCEPT !.messages = IF wire.array THEN wire.items ELSE <<>>]
  ELSE IF wire.type = "newMessage"
    THEN [state EXCEPT !.messages = Append(@, Pushed(wire))]
  ELSE [state EXCEPT !.connectionError = "Unknown message type"]

\* socket.onmessage, lines 78-85: a frame that is not JSON is logged only
onmessage(state, wire) ==
  IF wire.json = "invalid" THEN state
  ELSE LET handled == handleMessage(state, wire)
       IN IF wire.json = "object" /\ wire.type = "newMessage"
            THEN [handled EXCEPT !.pushed = @ \cup {Pushed(wire)}]
            ELSE handled

\* the guard of sendMessage and getMessages, lines 120 and 134, negated
CanSend(state) ==
  state.socket # Absent /\ state.readyState[state.socket] = "open"

\* socket.value.send of a request, after the guard
Send(state, action, body) ==
  IF CanSend(state)
    THEN [state EXCEPT !.outbox[state.socket] =
            Append(@, [action |-> action, body |-> body])]
    ELSE state

\* a frame posted to connection c reaches the browser: the message event
\* of the WebSocket of c, if the client has one and it is open
Arrive(state, c, frame) ==
  IF state.readyState[c] = "open"
    THEN onmessage([state EXCEPT !.last = [call |-> "onmessage", socket |-> c,
                                           wire |-> Wire(frame)]],
                   Wire(frame))
    ELSE state

\* the request that starts an invocation for connection c is the next one
\* the browser has sent on it, when the WebSocket of c is the browser's
Requested(c, action, body) ==
  client.readyState[c] # "unused" =>
    /\ client.outbox[c] # <<>>
    /\ Head(client.outbox[c]) = [action |-> action, body |-> body]

\* the request leaves the socket of c
Taken(state, c) ==
  IF state.readyState[c] = "unused" THEN state
                                    ELSE [state EXCEPT !.outbox[c] = Tail(@)]

Init ==
  /\ connections = {}
  /\ messages = {}
  /\ open = {}
  /\ now = StartTime
  /\ started = 0
  /\ inv = [i \in Slots |-> IdleInvocation]
  /\ client = IdleClient

\* slot i can take a new event
Busy(i) == inv[i].pc # "idle"

\* no invocation has returned a response that is still to be taken
Quiet == \A i \in Slots : inv[i].pc # "done"

\* slots are interchangeable: an event goes to the lowest free one
Free(i) ==
  /\ Quiet
  /\ ~Busy(i)
  /\ started < MaxInvocations
  /\ \A j \in Slots : j < i => Busy(j)

\* The Lambda runtime takes the response of a finished invocation and
\* releases its slot.  This happens before the system goes on: nothing a
\* handler does depends on a finished invocation.
Respond(i) ==
  /\ inv[i].pc = "done"
  /\ inv' = [inv EXCEPT ![i] = IdleInvocation]
  /\ UNCHANGED <<connections, messages, open, now, started, client>>

Begin(kind, connectionId) ==
  [IdleInvocation EXCEPT !.kind = kind, !.connectionId = connectionId]

Finish(invocation, response) ==
  [invocation EXCEPT !.pc = "done", !.response = response]

\* the store operation op of the invocation failed (StoreUnavailable)
Fault(invocation, op) == [invocation EXCEPT !.faults = @ \cup {op}]

(***************************************************************************)
(* Environment: the clock and the transport                                *)
(***************************************************************************)
\* the values Date.now() can return: the clock never runs backwards, and
\* how far it has advanced shows only when a handler reads it
DateNow == now..(IF now > StartTime + MaxTicks THEN now
                                                ELSE StartTime + MaxTicks)

\* the client closes the channel or the network drops it
ChannelClose(c) ==
  /\ Quiet
  /\ c \in open
  /\ open' = open \ {c}
  /\ UNCHANGED <<connections, messages, now, started, inv, client>>

(***************************************************************************)
(* $connect handler                                                        *)
(***************************************************************************)
\* the query parameters taken as they come, without the defaults
ConnectIdentityRaw(params) ==
  [userId |-> params.userId, username |-> params.username]

\* lines 50-51: queryParams.userId || 'anonymous', username || 'Anonymous'
ConnectIdentity(params) ==
  [userId |-> IF params.userId \in {Absent, ""}
                THEN DefaultUserId ELSE params.userId,
   username |-> IF params.username \in {Absent, ""}
                  THEN DefaultUsername ELSE params.username]

\* lines 47-54 and the call of saveConnection, up to its await
StartConnect(i, c, params) ==
  /\ Free(i)
  /\ \E time \in DateNow :
       LET who == ConnectIdentity(params)
           record == [connectionId |-> c, userId |-> who.userId,
                      username |-> who.username, connectedAt |-> time,
                      ttl |-> (time \div 1000) + TtlSeconds]
       IN /\ inv' = [inv EXCEPT ![i] =
               [Begin("connect", c) EXCEPT !.pc = "put", !.params = params,
                                           !.item = {record}]]
          /\ now' = time
  /\ started' = started + 1
  /\ UNCHANGED <<connections, messages, open, client>>

\* the PutCommand settles; on 200 the transport completes the handshake
ConnectPut(i) ==
  /\ Quiet
  /\ inv[i].kind = "connect" /\ inv[i].pc = "put"
  /\ \E ok \in BOOLEAN :
       IF ok
         THEN /\ connections' =
                   saveConnection(connections, CHOOSE r \in inv[i].item : TRUE)
              /\ open' = open \cup {inv[i].connectionId}
              /\ inv' = [j \in Slots |->
                   IF j = i
                     THEN Finish([inv[i] EXCEPT !.replaced =
                                    {r \in connections :
                                       r.connectionId = inv[i].connectionId}],
                                 TextResponse(200, "Connected"))
                     ELSE [inv[j] EXCEPT !.restored =
                             @ \cup (inv[j].deleted \cap {inv[i].connectionId})]]
         ELSE /\ inv' = [inv EXCEPT ![i] =
                           Finish(Fault(@, "saveConnection"),
                                  TextResponse(500, "Failed to connect"))]
              /\ UNCHANGED <<connections, open>>
  /\ UNCHANGED <<messages, now, started, client>>

(***************************************************************************)
(* $disconnect handler                                                     *)
(***************************************************************************)
StartDisconnect(i, c) ==
  /\ Free(i)
  /\ inv' = [inv EXCEPT ![i] = [Begin("disconnect", c) EXCEPT !.pc = "delete"]]
  /\ started' = started + 1
  /\ UNCHANGED <<connections, messages, open, now, client>>

\* a disconnect that logs a failed delete and acknowledges all the same
DisconnectDeleteSwallow(i) ==
  /\ Quiet
  /\ inv[i].kind = "disconnect" /\ inv[i].pc = "delete"
  /\ \E ok \in BOOLEAN :
       IF ok
         THEN /\ connections' = deleteConnection(connections, inv[i].connectionId)
              /\ inv' = [inv EXCEPT ![i] =
                           Finish([@ EXCEPT !.deleted = {inv[i].connectionId}],
                                  TextResponse(200, "Disconnected"))]
         ELSE /\ inv' = [inv EXCEPT ![i] =
                           Finish(Fault(@, "deleteConnection"),
                                  TextResponse(200, "Disconnected"))]
              /\ UNCHANGED connections
  /\ UNCHANGED <<messages, open, now, started, client>>

\* lines 145-159: the DeleteCommand settles; 200, or 500 from the catch
DisconnectDelete(i) ==
  /\ Quiet
  /\ inv[i].kind = "disconnect" /\ inv[i].pc = "delete"
  /\ \E ok \in BOOLEAN :
       IF ok
         THEN /\ connections' = deleteConnection(connections, inv[i].connectionId)
              /\ inv' = [inv EXCEPT ![i] =
                           Finish([@ EXCEPT !.deleted = {inv[i].connectionId},
                                            !.removed =
                                              {r \in connections :
                                                 r.connectionId = inv[i].connectionId}],
                                  TextResponse(200, "Disconnected"))]
         ELSE /\ inv' = [inv EXCEPT ![i] =
                           Finish(Fault(@, "deleteConnection"),
                                  TextResponse(500, "Failed to disconnect"))]
              /\ UNCHANGED connections
  /\ UNCHANGED <<messages, open, now, started, client>>

(***************************************************************************)
(* Delivery: sendToConnection and broadcastMessage                         *)
(***************************************************************************)
\* what PostToConnectionCommand can answer for connection c
PostResults(c) ==
  IF c \in open THEN {"delivered", "failed"} ELSE {"gone", "failed"}

\* sendToConnection returning false for a gone connection without
\* deleting its record
sendToConnectionNoCleanup(result) ==
  CASE result = "delivered" -> "fulfilled"
    [] result = "gone" -> "fulfilled"
    [] OTHER -> "rejected"

\* sendToConnection deleting the record on every error of the post
sendToConnectionAnyError(result) ==
  CASE result = "delivered" -> "fulfilled"
    [] OTHER -> "deleting"

\* sendToConnection after the post has settled: the state of its promise.
\* A gone connection is deleted first ("deleting"), any other error rethrown.
sendToConnection(result) ==
  CASE result = "delivered" -> "fulfilled"
    [] result = "gone" -> "deleting"
    [] OTHER -> "rejected"

\* the recipients without the filter on excludeConnectionId
RecipientsUnfiltered(snapshot, excludeConnectionId) ==
  {conn.connectionId : conn \in snapshot}

\* broadcastMessage lines 110-112: the connections it posts to
Recipients(snapshot, excludeConnectionId) ==
  {conn.connectionId : conn \in
     {r \in snapshot : r.connectionId # excludeConnectionId}}

\* Promise.all in place of Promise.allSettled: rejects with the first
\* rejection, fulfils when every promise has fulfilled
PromiseAll(sends) ==
  IF \E c \in ConnIds : sends[c] = "rejected" THEN "rejected"
  ELSE IF \E c \in ConnIds : sends[c] \in {"pending", "deleting"} THEN "pending"
  ELSE "fulfilled"

\* Promise.allSettled over the send promises: "pending" until every one
\* has settled, then "fulfilled" whatever their results
AllSettled(sends) ==
  IF \E c \in ConnIds : sends[c] \in {"pending", "deleting"}
    THEN "pending"
    ELSE "fulfilled"

\* the invocation issues one sendToConnection per recipient
IssueSends(invocation, recipients) ==
  [invocation EXCEPT
     !.sends = [c \in ConnIds |-> IF c \in recipients THEN "pending" ELSE @[c]],
     !.posts = [c \in ConnIds |->
                  IF c \in recipients THEN Append(@[c], invocation.frame) ELSE @[c]]]

\* a broadcast that keeps the sender record of the earlier lookup in its
\* list of recipients
BroadcastScanStale(i) ==
  /\ Quiet
  /\ inv[i].kind \in {"sendMessage", "broadcast"} /\ inv[i].pc = "scan"
  /\ \E ok \in BOOLEAN :
       IF ok
         THEN LET snapshot == getAllConnections(connections)
                                  \cup inv[i].sender
                  listed == [inv[i] EXCEPT !.snapshot = snapshot,
                                           !.listed = TRUE, !.pc = "settle"]
              IN inv' = [inv EXCEPT ![i] =
                   IssueSends(listed, Recipients(snapshot, inv[i].exclude))]
         ELSE inv' = [inv EXCEPT ![i] =
                IF inv[i].kind = "sendMessage"
                  THEN Finish(Fault(@, "broadcastMessage"),
                              ErrorResponse(500, "Failed to send message"))
                  ELSE Finish(Fault(@, "broadcastMessage"),
                              TextResponse(500, "rejected"))]
  /\ UNCHANGED <<connections, messages, open, now, started, client>>

\* broadcastMessage line 108 settles; lines 110-114 up to the await
BroadcastScan(i) ==
  /\ Quiet
  /\ inv[i].kind \in {"sendMessage", "broadcast"} /\ inv[i].pc = "scan"
  /\ \E ok \in BOOLEAN :
       IF ok
         THEN LET snapshot == getAllConnections(connections)
                  listed == [inv[i] EXCEPT !.snapshot = snapshot,
                                           !.listed = TRUE, !.pc = "settle"]
              IN inv' = [inv EXCEPT ![i] =
                   IssueSends(listed, Recipients(snapshot, inv[i].exclude))]
         ELSE inv' = [inv EXCEPT ![i] =
                IF inv[i].kind = "sendMessage"
                  THEN Finish(Fault(@, "broadcastMessage"),
                              ErrorResponse(500, "Failed to send message"))
                  ELSE Finish(Fault(@, "broadcastMessage"),
                              TextResponse(500, "rejected"))]
  /\ UNCHANGED <<connections, messages, open, now, started, client>>

\* the PostToConnectionCommand for recipient c settles
PostSettle(i, c) ==
  /\ Quiet
  /\ inv[i].pc = "settle" /\ inv[i].sends[c] = "pending"
  /\ \E result \in PostResults(c) :
       /\ inv' = [inv EXCEPT ![i].sends[c] = sendToConnection(result),
                             ![i].outcome[c] = result]
       /\ client' = IF result = "delivered"
                      THEN Arrive(client, c, inv[i].frame) ELSE client
  /\ UNCHANGED <<connections, messages, open, now, started>>

\* the DeleteCommand of sendToConnection's catch block settles
DeleteSettle(i, c) ==
  /\ Quiet
  /\ inv[i].pc = "settle" /\ inv[i].sends[c] = "deleting"
  /\ \E ok \in BOOLEAN :
       IF ok
         THEN /\ connections' = deleteConnection(connections, c)
              /\ inv' = [inv EXCEPT ![i].sends[c] = "fulfilled",
                                    ![i].deleted = @ \cup {c},
                                    ![i].restored = @ \ {c}]
         ELSE /\ inv' = [inv EXCEPT ![i].sends[c] = "rejected",
                                    ![i].faults = @ \cup {"sendToConnection"}]
              /\ UNCHANGED connections
  /\ UNCHANGED <<messages, open, now, started, client>>

\* a return that inspects the settled results and fails the send when a
\* delivery was rejected
BroadcastReturnChecked(i) ==
  /\ Quiet
  /\ inv[i].kind \in {"sendMessage", "broadcast"} /\ inv[i].pc = "settle"
  /\ AllSettled(inv[i].sends) # "pending"
  /\ LET ok == \A c \in ConnIds : inv[i].sends[c] # "rejected"
         messageId == (CHOOSE m \in inv[i].message : TRUE).messageId
     IN inv' = [inv EXCEPT ![i] =
          IF inv[i].kind = "sendMessage"
            THEN IF ok THEN Finish(@, SuccessResponse(messageId))
                       ELSE Finish(@, ErrorResponse(500, "Failed to send message"))
            ELSE Finish(@, TextResponse(IF ok THEN 200 ELSE 500,
                                        IF ok THEN "resolved" ELSE "rejected"))]
  /\ UNCHANGED <<connections, messages, open, now, started, client>>

\* broadcastMessage line 114 resumes; the caller continues
BroadcastReturn(i) ==
  /\ Quiet
  /\ inv[i].kind \in {"sendMessage", "broadcast"} /\ inv[i].pc = "settle"
  /\ AllSettled(inv[i].sends) # "pending"
  /\ LET ok == AllSettled(inv[i].sends) = "fulfilled"
         messageId == (CHOOSE m \in inv[i].message : TRUE).messageId
     IN inv' = [inv EXCEPT ![i] =
          IF inv[i].kind = "sendMessage"
            THEN IF ok THEN Finish(@, SuccessResponse(messageId))
                       ELSE Finish(@, ErrorResponse(500, "Failed to send message"))
            ELSE Finish(@, TextResponse(IF ok THEN 200 ELSE 500,
                                        IF ok THEN "resolved" ELSE "rejected"))]
  /\ UNCHANGED <<connections, messages, open, now, started, client>>

\* a direct call broadcastMessage(data, excludeConnectionId) of the service
CallBroadcast(i, message, excludeConnectionId) ==
  /\ Free(i)
  /\ inv' = [inv EXCEPT ![i] =
       [Begin("broadcast", "") EXCEPT
          !.pc = "scan", !.exclude = excludeConnectionId,
          !.frame = [type |-> "newMessage", data |-> <<message>>]]]
  /\ started' = started + 1
  /\ UNCHANGED <<connections, messages, open, now, client>>

(***************************************************************************)
(* sendMessage handler                                                     *)
(***************************************************************************)
\* the bodies of sendMessage events
SendBodies ==
  { JsonBody("missing"), JsonBody("invalid"), JsonBody("null"),
    JsonBody("scalar"), DataBody("absent"), DataBody("scalar") }
  \cup { SendBody(content, Absent, Absent, Absent) :
           content \in {JSUndefined, JSNull, JSNumber(0), JSNumber(123),
                        JSString(<<>>), JSString(<<" ", "\t">>)} }
  \cup { SendBody(JSString(<<"h", "i">>), Absent, Absent, Absent),
         SendBody(JSString(<<" ", "h", "i", "\n">>), "r1", "u9", "Mallory"),
         SendBody(JSString(<<" ", "h", "i", "\n">>), Absent, "u9", "Mallory") }

\* the bodies used where invocations run concurrently
RaceSendBodies ==
  { JsonBody("invalid"),
    SendBody(JSString(<<" ", "\t">>), Absent, Absent, Absent),
    SendBody(JSString(<<" ", "h", "i", "\n">>), Absent, "u9", "Mallory") }

\* the bodies used where the contents of the log matter: two different
\* texts for the default room, one for another room, and one of white
\* space only
LogSendBodies ==
  { SendBody(JSString(<<"y", "o">>), Absent, Absent, Absent),
    SendBody(JSString(<<" ", "h", "i", "\n">>), Absent, Absent, Absent),
    SendBody(JSString(<<"h", "i">>), "r1", Absent, Absent),
    SendBody(JSString(<<" ", "\t">>), Absent, Absent, Absent) }

\* the identity taken from the payload when the payload names one
MessageIdentityFromPayload(sender, payload) ==
  [userId |-> IF payload.userId = Absent THEN sender.userId ELSE payload.userId,
   username |-> IF payload.username = Absent THEN sender.username
                                             ELSE payload.username]

\* lines 74-79: the identity the message is stored under
MessageIdentity(sender, payload) ==
  [userId |-> sender.userId, username |-> sender.username]

\* a find whose predicate accepts every connection
FindSenderAny(snapshot, connectionId) ==
  IF snapshot = {} THEN {} ELSE {CHOOSE conn \in snapshot : TRUE}

\* lines 63-65: connections.find by connectionId
FindSender(snapshot, connectionId) ==
  {conn \in snapshot : conn.connectionId = connectionId}

\* lines 45-62: parse, validate, call getAllConnections
StartSend(i, c, body) ==
  /\ Free(i)
  /\ Requested(c, "sendMessage", body)
  /\ LET begun == [Begin("sendMessage", c) EXCEPT !.body = body]
     IN inv' = [inv EXCEPT ![i] =
          IF ParseThrows(body)
            THEN Finish(begun, ErrorResponse(500, "Failed to send message"))
          ELSE IF ~ValidContent(Payload(body).content)
            THEN Finish(begun, ErrorResponse(400, "Message content is required"))
          ELSE [begun EXCEPT !.pc = "lookup"]]
  /\ started' = started + 1
  /\ client' = Taken(client, c)
  /\ UNCHANGED <<connections, messages, open, now>>

\* the lookup that also posts an error frame to a sender it does not find
SendLookupNotify(i, suffixes) ==
  /\ Quiet
  /\ inv[i].kind = "sendMessage" /\ inv[i].pc = "lookup"
  /\ \E rnd \in suffixes, time \in DateNow :
       LET sender == FindSender(getAllConnections(connections),
                                inv[i].connectionId)
           payload == Payload(inv[i].body)
           roomId == IF payload.roomId = Absent THEN DEFAULT_ROOM
                                                ELSE payload.roomId
           who == MessageIdentity(CHOOSE r \in sender : TRUE, payload)
           message == NewMessage(who.userId, who.username,
                                 Trim(payload.content.s), roomId, time, rnd)
       IN inv' = [inv EXCEPT ![i] =
            IF sender = {}
              THEN Finish(IssueSends([@ EXCEPT !.frame.type = "error"],
                                     {inv[i].connectionId}),
                          ErrorResponse(400, "Connection not found"))
            ELSE [@ EXCEPT !.pc = "save", !.sender = sender,
                           !.message = {message}]]
  /\ now' \in DateNow
  /\ UNCHANGED <<connections, messages, open, started, client>>

\* line 62 settles; lines 63-79 and saveMessage up to its await
SendLookup(i, suffixes) ==
  /\ Quiet
  /\ inv[i].kind = "sendMessage" /\ inv[i].pc = "lookup"
  /\ \E ok \in BOOLEAN, rnd \in suffixes, time \in DateNow :
       LET sender == FindSender(getAllConnections(connections),
                                inv[i].connectionId)
           payload == Payload(inv[i].body)
           roomId == IF payload.roomId = Absent THEN DEFAULT_ROOM
                                                ELSE payload.roomId
           who == MessageIdentity(CHOOSE r \in sender : TRUE, payload)
           message == NewMessage(who.userId, who.username,
                                 Trim(payload.content.s), roomId, time, rnd)
       IN IF ~ok
            THEN /\ inv' = [inv EXCEPT ![i] =
                      Finish(Fault(@, "getAllConnections"),
                             ErrorResponse(500, "Failed to send message"))]
                 /\ now' = now
          ELSE IF sender = {}
            THEN /\ inv' = [inv EXCEPT ![i] =
                      Finish(@, ErrorResponse(400, "Connection not found"))]
                 /\ now' = now
          ELSE /\ inv' = [inv EXCEPT ![i] =
                    [@ EXCEPT !.pc = "save", !.sender = sender,
                              !.message = {message}]]
               /\ now' = time
  /\ UNCHANGED <<connections, messages, open, started, client>>

\* a save that also refreshes the ttl of the sender's registry record
SendSaveTouch(i) ==
  /\ Quiet
  /\ inv[i].kind = "sendMessage" /\ inv[i].pc = "save"
  /\ \E ok \in BOOLEAN :
       IF ok
         THEN LET message == CHOOSE m \in inv[i].message : TRUE
                  sender == CHOOSE r \in inv[i].sender : TRUE
              IN /\ messages' = saveMessage(messages, message)
                 /\ connections' =
                      saveConnection(connections,
                                     [sender EXCEPT !.ttl = @ + TtlSeconds])
                 /\ inv' = [inv EXCEPT ![i] =
                      [@ EXCEPT !.pc = "scan", !.persisted = TRUE,
                                !.frame = [type |-> "newMessage",
                                           data |-> <<message>>]]]
         ELSE /\ inv' = [inv EXCEPT ![i] =
                   Finish(Fault(@, "saveMessage"),
                          ErrorResponse(500, "Failed to send message"))]
              /\ UNCHANGED <<connections, messages>>
  /\ UNCHANGED <<open, now, started, client>>

\* the PutCommand of saveMessage settles; lines 81-84 call broadcastMessage
SendSave(i) ==
  /\ Quiet
  /\ inv[i].kind = "sendMessage" /\ inv[i].pc = "save"
  /\ \E ok \in BOOLEAN :
       IF ok
         THEN LET message == CHOOSE m \in inv[i].message : TRUE
              IN /\ messages' = saveMessage(messages, message)
                 /\ inv' = [inv EXCEPT ![i] =
                      [@ EXCEPT !.pc = "scan", !.persisted = TRUE,
                                !.frame = [type |-> "newMessage",
                                           data |-> <<message>>]]]
         ELSE /\ inv' = [inv EXCEPT ![i] =
                   Finish(Fault(@, "saveMessage"),
                          ErrorResponse(500, "Failed to send message"))]
              /\ UNCHANGED messages
  /\ UNCHANGED <<connections, open, now, started, client>>

(***************************************************************************)
(* getMessages handler                                                     *)
(***************************************************************************)
\* the bodies of getMessages events
GetBodies ==
  { JsonBody("missing"), JsonBody("invalid"),
    GetBody(Absent, JSNumber(1)), GetBody("r1", JSNumber(500)) }

\* requests whose limit is zero or negative
LimitBodies == { GetBody(Absent, JSNumber(0)), GetBody(Absent, JSNumber(-1)) }

\* the bodies used where invocations run concurrently
RaceGetBodies == { GetBody(Absent, JSNumber(1)), GetBody("r1", JSNumber(500)) }

\* the limit handed to the query without the Math.min
QueryLimitUncapped(limit) ==
  IF limit.t = "undefined" THEN DefaultLimit ELSE limit.n

\* line 135-138: the limit handed to the query, Math.min(limit, 100)
QueryLimit(limit) ==
  IF limit.t = "undefined" THEN Min(DefaultLimit, LimitCap)
                           ELSE Min(limit.n, LimitCap)

\* lines 127-138: parse, defaults, call getMessages
StartGet(i, c, body) ==
  /\ Free(i)
  /\ Requested(c, "getMessages", body)
  /\ LET begun == [Begin("getMessages", c) EXCEPT !.body = body]
         payload == Payload(body)
         roomId == IF payload.roomId = Absent THEN DEFAULT_ROOM
                                              ELSE payload.roomId
     IN inv' = [inv EXCEPT ![i] =
          IF ParseThrows(body)
            THEN Finish(begun, ErrorResponse(500, "Failed to get messages"))
            ELSE [begun EXCEPT !.pc = "query",
                    !.query = [roomId |-> roomId,
                               limit |-> QueryLimit(payload.limit)]]]
  /\ started' = started + 1
  /\ client' = Taken(client, c)
  /\ UNCHANGED <<connections, messages, open, now>>

\* how the QueryCommand can settle: the table rejects a Limit below 1
QueryOutcomes(limit) == IF limit >= 1 THEN BOOLEAN ELSE {FALSE}

\* the history handed to broadcastMessage instead of sendToConnection
GetQueryBroadcast(i) ==
  /\ Quiet
  /\ inv[i].kind = "getMessages" /\ inv[i].pc = "query"
  /\ \E ok \in BOOLEAN :
       inv' = [inv EXCEPT ![i] =
         IF ok
           THEN IssueSends(
                  [@ EXCEPT !.pc = "settle",
                            !.frame = [type |-> "messageHistory",
                                       data |-> getMessages(messages,
                                                  inv[i].query.roomId,
                                                  inv[i].query.limit)]],
                  Recipients(getAllConnections(connections), Absent)
                    \cup {inv[i].connectionId})
           ELSE Finish(Fault(@, "getMessages"),
                       ErrorResponse(500, "Failed to get messages"))]
  /\ UNCHANGED <<connections, messages, open, now, started, client>>

\* the QueryCommand settles; line 140 calls sendToConnection
GetQuery(i) ==
  /\ Quiet
  /\ inv[i].kind = "getMessages" /\ inv[i].pc = "query"
  /\ \E ok \in QueryOutcomes(inv[i].query.limit) :
       inv' = [inv EXCEPT ![i] =
         IF ok
           THEN IssueSends(
                  [@ EXCEPT !.pc = "settle",
                            !.frame = [type |-> "messageHistory",
                                       data |-> getMessages(messages,
                                                  inv[i].query.roomId,
                                                  inv[i].query.limit)]],
                  {inv[i].connectionId})
           ELSE Finish(Fault(@, "getMessages"),
                       ErrorResponse(500, "Failed to get messages"))]
  /\ UNCHANGED <<connections, messages, open, now, started, client>>

\* line 140 resumes: 200 when sendToConnection returned, 500 when it threw
GetReturn(i) ==
  /\ Quiet
  /\ inv[i].kind = "getMessages" /\ inv[i].pc = "settle"
  /\ inv[i].sends[inv[i].connectionId] \in {"fulfilled", "rejected"}
  /\ inv' = [inv EXCEPT ![i] =
       IF inv[i].sends[inv[i].connectionId] = "fulfilled"
         THEN Finish(@, SuccessResponse(<<>>))
         ELSE Finish(@, ErrorResponse(500, "Failed to get messages"))]
  /\ UNCHANGED <<connections, messages, open, now, started, client>>

(***************************************************************************)
(* Specifications                                                          *)
(***************************************************************************)
\* one step of the system: the four handlers taking events from the given
\* slots with the given requests, the clock and the transport
Step(slots, params, sendBodies, getBodies, suffixes) ==
  \/ \E c \in ConnIds : ChannelClose(c)
  \/ \E i \in slots, c \in ConnIds, q \in params : StartConnect(i, c, q)
  \/ \E i \in slots : ConnectPut(i)
  \/ \E i \in slots, c \in ConnIds : StartDisconnect(i, c)
  \/ \E i \in slots : DisconnectDelete(i)
  \/ \E i \in slots, c \in ConnIds, body \in sendBodies : StartSend(i, c, body)
  \/ \E i \in slots : SendLookup(i, suffixes)
  \/ \E i \in slots : SendSave(i)
  \/ \E i \in slots : BroadcastScan(i)
  \/ \E i \in slots, c \in ConnIds : PostSettle(i, c)
  \/ \E i \in slots, c \in ConnIds : DeleteSettle(i, c)
  \/ \E i \in slots : BroadcastReturn(i)
  \/ \E i \in slots, c \in ConnIds, body \in getBodies : StartGet(i, c, body)
  \/ \E i \in slots : GetQuery(i)
  \/ \E i \in slots : GetReturn(i)
  \/ \E i \in slots : Respond(i)

\* the deployed system with concurrent invocations
Next == Step(Slots, RaceParams, RaceSendBodies, RaceGetBodies, RaceSuffixes)

Spec == Init /\ [][Next]_vars

\* one invocation at a time, over every kind of request
NextInputs == Step({1}, QueryParams, SendBodies, GetBodies, RandomSuffixes)

SpecInputs == Init /\ [][NextInputs]_vars

\* one invocation at a time, sending different texts to two rooms
NextLog == Step({1}, RaceParams, LogSendBodies, RaceGetBodies, RandomSuffixes)

SpecLog == Init /\ [][NextLog]_vars

\* the contents a direct caller hands to saveMessage
StoreContents == {<<>>, <<" ">>, <<"h", "i">>, <<" ", "h", "i">>}

\* a direct call saveMessage(userId, username, content, roomId) of the
\* service: lines 128-141, up to the await of the PutCommand
CallSaveMessage(i, content, roomId) ==
  /\ Free(i)
  /\ \E rnd \in RandomSuffixes, time \in DateNow :
       /\ inv' = [inv EXCEPT ![i] =
            [Begin("saveMessage", "") EXCEPT
               !.pc = "save",
               !.message = {NewMessage("u1", "Alice", content, roomId,
                                       time, rnd)}]]
       /\ now' = time
  /\ started' = started + 1
  /\ UNCHANGED <<connections, messages, open, client>>

\* the PutCommand of a direct saveMessage call settles: lines 143-149
SaveReturn(i) ==
  /\ inv[i].kind = "saveMessage" /\ inv[i].pc = "save"
  /\ \E ok \in BOOLEAN :
       IF ok
         THEN /\ messages' =
                   saveMessage(messages, CHOOSE m \in inv[i].message : TRUE)
              /\ inv' = [inv EXCEPT ![i] =
                   Finish([@ EXCEPT !.persisted = TRUE],
                          TextResponse(200, "resolved"))]
         ELSE /\ inv' = [inv EXCEPT ![i] =
                   Finish(Fault(@, "saveMessage"),
                          TextResponse(500, "rejected"))]
              /\ UNCHANGED messages
  /\ UNCHANGED <<connections, open, now, started, client>>

\* direct calls of the store function saveMessage, one at a time
NextStore ==
  \/ \E content \in StoreContents, roomId \in {DEFAULT_ROOM, "r1"} :
       CallSaveMessage(1, content, roomId)
  \/ SaveReturn(1)
  \/ Respond(1)

SpecStore == Init /\ [][NextStore]_vars

\* a message handed to broadcastMessage by a direct caller
SampleMessage ==
  NewMessage("u1", "Alice", <<"h", "i">>, DEFAULT_ROOM, StartTime, <<"a">>)

\* the handlers plus direct calls of the service function broadcastMessage
NextService ==
  \/ Next
  \/ \E i \in Slots, exclude \in ConnIds \cup {Absent} :
       CallBroadcast(i, SampleMessage, exclude)

SpecService == Init /\ [][NextService]_vars

\* the log after n sends to a room, one per millisecond, the last one a
\* millisecond before StartTime
StoredLog(roomId, n) ==
  {NewMessage("u1", "Alice", <<"h", "i">>, roomId, StartTime - k, <<"a">>) :
     k \in 1..n}

\* the logs the history fetches run over: empty; a default room just over
\* the default limit next to a room just over the cap; a room under any limit
StoredLogs ==
  { {},
    StoredLog(DEFAULT_ROOM, DefaultLimit + Overflow)
      \cup StoredLog("r1", LimitCap + Overflow),
    StoredLog(DEFAULT_ROOM, 2) }

InitHistory ==
  /\ connections = {}
  /\ messages \in StoredLogs
  /\ open = {}
  /\ now = StartTime
  /\ started = 0
  /\ inv = [i \in Slots |-> IdleInvocation]
  /\ client = IdleClient

\* connections come and go and fetch the history, one invocation at a time
NextHistory ==
  \/ \E c \in ConnIds : ChannelClose(c)
  \/ \E c \in ConnIds, q \in RaceParams : StartConnect(1, c, q)
  \/ ConnectPut(1)
  \/ \E c \in ConnIds, body \in GetBodies \cup LimitBodies :
       StartGet(1, c, body)
  \/ GetQuery(1)
  \/ \E c \in ConnIds : PostSettle(1, c)
  \/ \E c \in ConnIds : DeleteSettle(1, c)
  \/ GetReturn(1)
  \/ Respond(1)

SpecHistory == InitHistory /\ [][NextHistory]_vars

\* connections come and go under every kind of query parameters, one
\* invocation at a time
NextConnect ==
  \/ \E c \in ConnIds : ChannelClose(c)
  \/ \E c \in ConnIds, q \in QueryParams : StartConnect(1, c, q)
  \/ ConnectPut(1)
  \/ \E c \in ConnIds : StartDisconnect(1, c)
  \/ DisconnectDelete(1)
  \/ Respond(1)

SpecConnect == Init /\ [][NextConnect]_vars

\* a running chat: c1 is connected and the default room holds two messages
InitBusy ==
  /\ connections =
       {[connectionId |-> "c1", userId |-> "u1", username |-> "Alice",
         connectedAt |-> StartTime - 1,
         ttl |-> ((StartTime - 1) \div 1000) + TtlSeconds]}
  /\ messages = StoredLog(DEFAULT_ROOM, 2)
  /\ open = {"c1"}
  /\ now = StartTime
  /\ started = 0
  /\ inv = [i \in Slots |-> IdleInvocation]
  /\ client = IdleClient

\* the texts c1 sends while the chat runs
BusySendBodies ==
  { SendBody(JSString(<<"h", "i">>), Absent, Absent, Absent),
    SendBody(JSString(<<"y", "o">>), Absent, Absent, Absent) }

\* concurrent invocations of c1 sending to the default room and fetching
\* its history with the default limit
NextBusy ==
  \/ ChannelClose("c1")
  \/ \E i \in Slots :
       \/ \E body \in BusySendBodies : StartSend(i, "c1", body)
       \/ SendLookup(i, RaceSuffixes)
       \/ SendSave(i)
       \/ BroadcastScan(i)
       \/ PostSettle(i, "c1")
       \/ DeleteSettle(i, "c1")
       \/ BroadcastReturn(i)
       \/ StartGet(i, "c1", JsonBody("missing"))
       \/ GetQuery(i)
       \/ GetReturn(i)
       \/ Respond(i)

SpecBusy == InitBusy /\ [][NextBusy]_vars

\* time to live of the connections table: an item is expired once its ttl
\* attribute, in epoch seconds, lies before the current time
TtlExpired(r, time) == r.ttl < time \div 1000

\* no handler runs while the lifetime of a connection record (24 hours)
\* elapses
DayPasses ==
  /\ \A i \in Slots : ~Busy(i)
  /\ \E r \in connections : ~TtlExpired(r, now)
  /\ now' = now + (TtlSeconds + 1) * 1000
  /\ UNCHANGED <<connections, messages, open, started, inv, client>>

\* a connections table whose time to live is not enabled
TtlSweepOff(c) ==
  /\ c \in {}
  /\ UNCHANGED <<connections, messages, open, now, started, inv, client>>

\* the table's background process deletes the expired record of c, some
\* time after its ttl has passed
TtlSweep(c) ==
  /\ Quiet
  /\ \E r \in connections :
       /\ r.connectionId = c
       /\ TtlExpired(r, now)
       /\ connections' = connections \ {r}
  /\ UNCHANGED <<messages, open, now, started, inv, client>>

\* one invocation at a time, over the lifetime of the connection records
NextExpiry ==
  \/ Step({1}, RaceParams, RaceSendBodies, RaceGetBodies, RandomSuffixes)
  \/ DayPasses
  \/ \E c \in ConnIds : TtlSweep(c)

SpecExpiry == Init /\ [][NextExpiry]_vars

\* the steps by which the runtime carries a started invocation to its
\* response
Running ==
  \/ ConnectPut(1)
  \/ DisconnectDelete(1)
  \/ SendLookup(1, RandomSuffixes)
  \/ SendSave(1)
  \/ BroadcastScan(1)
  \/ \E c \in ConnIds : PostSettle(1, c)
  \/ \E c \in ConnIds : DeleteSettle(1, c)
  \/ BroadcastReturn(1)
  \/ GetQuery(1)
  \/ GetReturn(1)
  \/ Respond(1)

\* every started invocation runs to its response, time passes, and the
\* table deletes every expired item in the end
FairExpiry ==
  /\ SpecExpiry
  /\ WF_vars(Running)
  /\ WF_vars(DayPasses)
  /\ \A c \in ConnIds : WF_vars(TtlSweep(c))

(***************************************************************************)
(* The browser client on its own                                           *)
(***************************************************************************)
\* one more call or callback of the client
Called(call, c, wire) ==
  [client EXCEPT !.calls = @ + 1,
                 !.last = [call |-> call, socket |-> c, wire |-> wire]]

\* the request getMessages() sends: room 'global', limit 50
ClientGetBody == GetBody("global", JSNumber(50))

\* the request sendMessage('hi') sends, in room 'global'
ClientSendBody == SendBody(JSString(<<"h", "i">>), "global", Absent, Absent)

\* connect(userId, username), lines 48-90: the URL may be missing and the
\* WebSocket constructor may throw; the new socket replaces socket.value
ClientConnect(configured, throws) ==
  /\ client.calls < MaxCalls
  /\ \E c \in ConnIds : client.readyState[c] = "unused"
  /\ client' =
       IF ~configured
         THEN [Called("connect", Absent, NoWire) EXCEPT
                 !.connectionError = "WebSocket URL not configured"]
       ELSE IF throws
         THEN [Called("connect", Absent, NoWire) EXCEPT
                 !.connectionError = "Failed to connect"]
       ELSE LET c == CHOOSE d \in ConnIds : client.readyState[d] = "unused"
            IN [Called("connect", c, NoWire) EXCEPT
                  !.socket = c, !.readyState[c] = "connecting"]
  /\ UNCHANGED <<connections, messages, open, now, started, inv>>

\* the open event of the WebSocket of c: onopen, lines 61-66
SocketOpen(c) ==
  /\ client.calls < MaxCalls
  /\ client.readyState[c] = "connecting"
  /\ client' =
       Send([Called("onopen", c, NoWire) EXCEPT
               !.readyState[c] = "open", !.isConnected = TRUE,
               !.connectionError = Absent],
            "getMessages", ClientGetBody)
  /\ UNCHANGED <<connections, messages, open, now, started, inv>>

\* the close event of the WebSocket of c: onclose, lines 68-71
SocketClose(c) ==
  /\ client.calls < MaxCalls
  /\ client.readyState[c] \in {"connecting", "open", "closing"}
  /\ client' = [Called("onclose", c, NoWire) EXCEPT
                  !.readyState[c] = "closed", !.isConnected = FALSE]
  /\ UNCHANGED <<connections, messages, open, now, started, inv>>

\* the error event of the WebSocket of c: onerror, lines 73-76
SocketError(c) ==
  /\ client.calls < MaxCalls
  /\ client.readyState[c] \in {"connecting", "open", "closing"}
  /\ client' = [Called("onerror", c, NoWire) EXCEPT
                  !.connectionError = "Connection error"]
  /\ UNCHANGED <<connections, messages, open, now, started, inv>>

\* a message event of the WebSocket of c: onmessage, lines 78-85
SocketMessage(c, wire) ==
  /\ client.calls < MaxCalls
  /\ client.readyState[c] = "open"
  /\ client' = onmessage(Called("onmessage", c, wire), wire)
  /\ UNCHANGED <<connections, messages, open, now, started, inv>>

\* sendMessage(content), lines 119-131
ClientSendMessage ==
  /\ client.calls < MaxCalls
  /\ client' = Send(Called("sendMessage", Absent, NoWire),
                     "sendMessage", ClientSendBody)
  /\ UNCHANGED <<connections, messages, open, now, started, inv>>

\* getMessages(), lines 133-144
ClientGetMessages ==
  /\ client.calls < MaxCalls
  /\ client' = Send(Called("getMessages", Absent, NoWire),
                     "getMessages", ClientGetBody)
  /\ UNCHANGED <<connections, messages, open, now, started, inv>>

\* a disconnect that closes the socket and keeps the rest of the state
disconnectKeep(state) ==
  [state EXCEPT
     !.readyState = [c \in ConnIds |->
                       IF c = state.socket /\ @[c] \in {"connecting", "open"}
                         THEN "closing" ELSE @[c]],
     !.socket = Absent]

\* disconnect(), lines 146-152: close the current socket and reset
disconnect(state) ==
  [state EXCEPT
     !.readyState = [c \in ConnIds |->
                       IF c = state.socket /\ @[c] \in {"connecting", "open"}
                         THEN "closing" ELSE @[c]],
     !.socket = Absent,
     !.isConnected = FALSE,
     !.messages = <<>>,
     !.connectionError = Absent,
     !.pushed = {}]

\* a call of disconnect(), also from onUnmounted (lines 154-156)
ClientDisconnect ==
  /\ client.calls < MaxCalls
  /\ client' = disconnect(Called("disconnect", Absent, NoWire))
  /\ UNCHANGED <<connections, messages, open, now, started, inv>>

\* entries of a message list
Entry(id) == [messageId |-> id]

\* the frames a socket hands to the client: histories with and without an
\* array, a new message, an unknown type, a type that is no string, and
\* values that are no object or no JSON
ClientFrames ==
  { WireFrame("object", "messageHistory", TRUE, <<Entry("1"), Entry("2")>>),
    WireFrame("object", "messageHistory", FALSE, <<Entry("1")>>),
    WireFrame("object", "newMessage", FALSE, <<Entry("3")>>),
    WireFrame("object", "pong", FALSE, <<>>),
    WireFrame("object", Absent, FALSE, <<>>),
    WireFrame("null", Absent, FALSE, <<>>),
    WireFrame("scalar", Absent, FALSE, <<>>),
    WireFrame("invalid", Absent, FALSE, <<>>) }

\* the calls a page makes and the events its sockets raise
NextClient ==
  \/ \E configured, throws \in BOOLEAN : ClientConnect(configured, throws)
  \/ \E c \in ConnIds : SocketOpen(c)
  \/ \E c \in ConnIds : SocketClose(c)
  \/ \E c \in ConnIds : SocketError(c)
  \/ \E c \in ConnIds, wire \in ClientFrames : SocketMessage(c, wire)
  \/ ClientSendMessage
  \/ ClientGetMessages
  \/ ClientDisconnect

SpecClient == Init /\ [][NextClient]_vars

(***************************************************************************)
(* The browser client and the backend together: one client connects, its   *)
(* open event fetches the history, and another connection sends a message  *)
(***************************************************************************)
\* the connection of the other user
Sender == "c2"

\* the query string of connect(userId, username), line 56
ClientParams == [userId |-> "u1", username |-> "Alice"]

InitEndToEnd ==
  /\ connections =
       {[connectionId |-> Sender, userId |-> "u2", username |-> "Bob",
         connectedAt |-> StartTime - 1,
         ttl |-> ((StartTime - 1) \div 1000) + TtlSeconds]}
  /\ messages = {}
  /\ open = {Sender}
  /\ now = StartTime
  /\ started = 0
  /\ inv = [i \in Slots |-> IdleInvocation]
  /\ client = IdleClient

\* connect() of the client; the transport names the new connection
EndToEndConnect ==
  /\ client.socket = Absent
  /\ ClientConnect(TRUE, FALSE)
  /\ client'.socket # Sender

\* the $connect event of the socket the client is opening
EndToEndHandshake(i) ==
  /\ client.socket # Absent
  /\ client.readyState[client.socket] = "connecting"
  /\ client.socket \notin open
  /\ \A j \in Slots : inv[j].kind # "connect"
  /\ StartConnect(i, client.socket, ClientParams)

\* the open event, dispatched once $connect has answered 200
EndToEndOpen ==
  /\ client.socket \in open
  /\ SocketOpen(client.socket)

\* a frame posted to c; the browser dispatches the message events of a
\* socket after its open event
EndToEndPost(i, c) ==
  /\ client.readyState[c] # "connecting"
  /\ PostSettle(i, c)

NextEndToEnd ==
  \/ EndToEndConnect
  \/ EndToEndOpen
  \/ \E i \in Slots :
       \/ EndToEndHandshake(i)
       \/ ConnectPut(i)
       \/ StartSend(i, Sender, ClientSendBody)
       \/ SendLookup(i, RaceSuffixes)
       \/ SendSave(i)
       \/ BroadcastScan(i)
       \/ \E c \in ConnIds : EndToEndPost(i, c)
       \/ BroadcastReturn(i)
       \/ \E c \in ConnIds : StartGet(i, c, ClientGetBody)
       \/ GetQuery(i)
       \/ GetReturn(i)
       \/ Respond(i)

SpecEndToEnd == InitEndToEnd /\ [][NextEndToEnd]_vars

TypeOK ==
  /\ now >= StartTime
  /\ started \in 0..MaxInvocations
  /\ open \subseteq ConnIds
  /\ \A r \in connections : r.connectionId \in ConnIds
  /\ \A i \in Slots :
       inv[i].pc \in {"idle", "put", "delete", "lookup", "save", "scan",
                      "settle", "query", "done"}

(***************************************************************************)
(* Properties                                                              *)
(***************************************************************************)
Ids(table) == {r.connectionId : r \in table}

Registered(c) == c \in Ids(connections)

\* the invocation is a broadcast whose listing of the registry succeeded
Broadcasting(i) ==
  inv[i].kind \in {"sendMessage", "broadcast"} /\ inv[i].listed

ContentRequired == ErrorResponse(400, "Message content is required")
ConnectionNotFound == ErrorResponse(400, "Connection not found")
FailedToSend == ErrorResponse(500, "Failed to send message")

\* C1: a broadcast posts its frame exactly once to every connection of the
\* registry snapshot it read, except excludeConnectionId, and to no other
\* connection; sendMessage excludes nobody and its frame is a newMessage
\* carrying the message it persisted.
C1_OneAttemptPerRecipient ==
  \A i \in Slots :
    Broadcasting(i) =>
      /\ \A c \in ConnIds :
           inv[i].posts[c] =
             IF c \in Ids(inv[i].snapshot) /\ c # inv[i].exclude
               THEN <<inv[i].frame>> ELSE <<>>
      /\ inv[i].kind = "sendMessage" =>
           /\ inv[i].exclude = Absent
           /\ inv[i].persisted
           /\ \E m \in inv[i].message :
                inv[i].frame = [type |-> "newMessage", data |-> <<m>>]

\* C1 witness: a direct broadcast that excluded a listed connection, next to
\* a successful send that posted to its own sender
C1_Witness ==
  \E i, j \in Slots :
    /\ inv[i].kind = "broadcast" /\ inv[i].listed
    /\ inv[i].exclude \in Ids(inv[i].snapshot)
    /\ inv[j].kind = "sendMessage" /\ inv[j].pc = "done"
    /\ inv[j].response.success
    /\ Len(inv[j].posts[inv[j].connectionId]) = 1

\* C2: once one delivery of a broadcast has failed with a non-gone error,
\* every other recipient still has its one attempt, and when the broadcast
\* has returned it has resolved (the send answers 200) and every attempt
\* has settled.
C2_SettleAll ==
  \A i \in Slots :
    (Broadcasting(i) /\ \E c \in ConnIds : inv[i].outcome[c] = "failed") =>
      /\ \A d \in Recipients(inv[i].snapshot, inv[i].exclude) :
           Len(inv[i].posts[d]) = 1
      /\ inv[i].pc = "done" =>
           /\ inv[i].response.statusCode = 200
           /\ \A d \in Recipients(inv[i].snapshot, inv[i].exclude) :
                /\ inv[i].outcome[d] # "none"
                /\ inv[i].sends[d] \in {"fulfilled", "rejected"}

\* C2 witness: a returned broadcast over two recipients, one failed and one
\* delivered
C2_Witness ==
  \E i \in Slots :
    /\ Broadcasting(i) /\ inv[i].pc = "done"
    /\ \E c, d \in ConnIds :
         inv[i].outcome[c] = "failed" /\ inv[i].outcome[d] = "delivered"

\* C3 as claimed: when a broadcast has returned, no recipient that was
\* signalled gone has a record in the registry.
C3_GoneAbsentAfterBroadcast ==
  \A i \in Slots :
    (Broadcasting(i) /\ inv[i].pc = "done") =>
      \A c \in ConnIds : inv[i].outcome[c] = "gone" => ~Registered(c)

\* C3 amended: a gone signal always leads to a deleteConnection that has
\* settled when the broadcast returns; when that delete succeeded, the
\* recipient has no record when the broadcast returns, unless a connect for
\* the same connectionId stored one after the deletion.
C3_GoneAbsentIfDeleted ==
  \A i \in Slots :
    (Broadcasting(i) /\ inv[i].pc = "done") =>
      \A c \in ConnIds :
        inv[i].outcome[c] = "gone" =>
          /\ inv[i].sends[c] \in {"fulfilled", "rejected"}
          /\ inv[i].sends[c] = "fulfilled" <=> c \in inv[i].deleted
          /\ (inv[i].sends[c] = "fulfilled" /\ c \notin inv[i].restored) =>
               ~Registered(c)

\* C3 witness: a returned broadcast with a gone recipient whose record was
\* deleted
C3_Witness ==
  \E i \in Slots, c \in ConnIds :
    /\ Broadcasting(i) /\ inv[i].pc = "done"
    /\ inv[i].outcome[c] = "gone" /\ c \in inv[i].deleted
    /\ ~Registered(c)

\* C4: the step in which a post settles leaves the registry as it is, and
\* starts a deleteConnection exactly when the post was signalled gone; the
\* step in which that delete settles removes no record but the recipient's.
C4_OnlyGoneDeletes ==
  [][\A i \in Slots, c \in ConnIds :
       /\ (inv[i].sends[c] = "pending" /\ inv'[i].sends[c] # "pending") =>
            /\ connections' = connections
            /\ inv'[i].sends[c] = "deleting" <=> inv'[i].outcome[c] = "gone"
            /\ inv'[i].outcome[c] = "delivered" => inv'[i].sends[c] = "fulfilled"
            /\ inv'[i].outcome[c] = "failed" => inv'[i].sends[c] = "rejected"
       /\ (inv[i].sends[c] = "deleting" /\ inv'[i].sends[c] # "deleting") =>
            /\ inv[i].outcome[c] = "gone"
            /\ connections' \subseteq connections
            /\ \A r \in connections \ connections' : r.connectionId = c]_vars

\* C4 witness: a delivery failed with a non-gone error and the recipient's
\* record is the one the broadcast listed
C4_Witness ==
  \E i \in Slots, c \in ConnIds :
    /\ inv[i].outcome[c] = "failed" /\ inv[i].sends[c] = "rejected"
    /\ \E r \in inv[i].snapshot : r.connectionId = c /\ r \in connections

\* C5: the registry never holds two records with one connectionId, and
\* right after a successful connect the only record of its connectionId is
\* the one it built.
C5_RegistryUnique ==
  /\ \A r1, r2 \in connections :
       r1.connectionId = r2.connectionId => r1 = r2
  /\ \A i \in Slots :
       (inv[i].kind = "connect" /\ inv[i].pc = "done"
          /\ inv[i].response.statusCode = 200) =>
         {r \in connections : r.connectionId = inv[i].connectionId} = inv[i].item

\* C5 witness: a connect has replaced a different record of its connectionId
C5_Witness ==
  \E i \in Slots :
    /\ inv[i].kind = "connect" /\ inv[i].pc = "done"
    /\ inv[i].replaced # {} /\ inv[i].replaced # inv[i].item

\* C6: the message a send builds and persists carries the userId and
\* username of the registry record it found for its own connectionId, and
\* no message in the log carries an identity injected in a payload.
C6_TrustBoundary ==
  /\ \A i \in Slots :
       inv[i].kind = "sendMessage" =>
         \A m \in inv[i].message :
           /\ \E r \in inv[i].sender :
                /\ r.connectionId = inv[i].connectionId
                /\ m.userId = r.userId /\ m.username = r.username
  /\ \A m \in messages :
       \E params \in QueryParams :
         [userId |-> m.userId, username |-> m.username] = ConnectIdentity(params)

\* C6 witness: a send whose payload names another identity has persisted
C6_Witness ==
  \E i \in Slots :
    /\ inv[i].kind = "sendMessage" /\ inv[i].persisted
    /\ inv[i].body.userId = "u9" /\ inv[i].body.username = "Mallory"
    /\ \E m \in messages : m.userId = "u1" /\ m \in inv[i].message

\* the content values C7 names: absent, null, not a string, empty or
\* whitespace only
NoContent(v) ==
  \/ v.t # "string"
  \/ \A k \in 1..Len(v.s) : v.s[k] \in WhiteSpace

\* C7: a send whose body parses and whose data.content is absent, null, not
\* a string, empty or whitespace only is answered at once with 400 "Message
\* content is required" and persists nothing.
C7_ContentRequired ==
  \A i \in Slots :
    (inv[i].kind = "sendMessage" /\ ~ParseThrows(inv[i].body)
       /\ NoContent(Payload(inv[i].body).content)) =>
      /\ inv[i].pc = "done"
      /\ inv[i].response = ContentRequired
      /\ ~inv[i].persisted /\ inv[i].message = {}

\* C7 witness: a whitespace-only content was rejected although the sender
\* is registered
C7_Witness ==
  \E i \in Slots :
    /\ inv[i].kind = "sendMessage" /\ inv[i].response = ContentRequired
    /\ inv[i].body.content = JSString(<<" ", "\t">>)
    /\ Registered(inv[i].connectionId)

\* the lookup of a send with no record for its connectionId settles
UnknownSenderStep(i) ==
  /\ inv[i].kind = "sendMessage" /\ inv[i].pc = "lookup"
  /\ inv'[i].pc # "lookup"
  /\ ~Registered(inv[i].connectionId)

\* C8 as claimed: a send with valid content whose connectionId has no record
\* is always answered 400 "Connection not found".
C8_UnknownSenderAlways400 ==
  [][\A i \in Slots :
       UnknownSenderStep(i) => inv'[i].response = ConnectionNotFound]_vars

\* C8 amended: a send with valid content whose connectionId has no record
\* when the registry is read is answered 400 "Connection not found", or 500
\* "Failed to send message" when that read fails, and persists nothing.
C8_UnknownSenderRejected ==
  [][\A i \in Slots :
       UnknownSenderStep(i) =>
         /\ inv'[i].pc = "done"
         /\ inv'[i].response =
              IF "getAllConnections" \in inv'[i].faults
                THEN FailedToSend ELSE ConnectionNotFound
         /\ ~inv'[i].persisted /\ inv'[i].message = {}
         /\ messages' = messages]_vars

\* C8 witness: connect(c), disconnect(c), send(c): the send is rejected
C8_Witness ==
  \E i \in Slots :
    /\ inv[i].kind = "sendMessage" /\ inv[i].response = ConnectionNotFound
    /\ started = 3
    /\ inv[i].connectionId \in open
    /\ ~Registered(inv[i].connectionId)

\* C9: the step in which a send is rejected with 400 changes neither the
\* registry nor the message log, and the rejected send has posted nothing,
\* persisted nothing and deleted nothing.
C9_RejectionHasNoEffect ==
  [][\A i \in Slots :
       (inv'[i].kind = "sendMessage" /\ inv'[i].pc = "done"
          /\ inv[i].pc # "done" /\ inv'[i].response.statusCode = 400) =>
         /\ connections' = connections
         /\ messages' = messages
         /\ inv'[i].response \in {ContentRequired, ConnectionNotFound}
         /\ \A c \in ConnIds : inv'[i].posts[c] = <<>>
         /\ ~inv'[i].persisted /\ inv'[i].deleted = {}]_vars

\* C9 witness: a send of an unregistered connection was rejected while the
\* registry and the log hold entries
C9_Witness ==
  \E i \in Slots :
    /\ inv[i].kind = "sendMessage" /\ inv[i].response = ConnectionNotFound
    /\ connections # {} /\ messages # {}

\* C10 as claimed: a send answers with the success ack exactly when its
\* message was persisted; the acknowledged messageId is in the log.
C10_AckIffPersisted ==
  \A i \in Slots :
    (inv[i].kind = "sendMessage" /\ inv[i].pc = "done") =>
      /\ inv[i].response.success <=> inv[i].persisted
      /\ inv[i].response.success =>
           \E m \in messages : m.messageId = inv[i].response.messageId

\* C11: a send that passed validation, found its sender, persisted its
\* message and listed the recipients answers with the success ack carrying
\* its messageId, whatever the deliveries did: all delivered, some gone (with
\* the cleanup succeeding or failing), some failed with another error.
C11_DeliveryOutcomesHidden ==
  \A i \in Slots :
    (inv[i].kind = "sendMessage" /\ inv[i].pc = "done" /\ inv[i].listed) =>
      /\ inv[i].persisted
      /\ \E m \in inv[i].message :
           inv[i].response = SuccessResponse(m.messageId)

\* C11 witness: a send has returned after one recipient was gone and another
\* failed with a different error
C11_Witness ==
  \E i \in Slots, c, d \in ConnIds :
    /\ inv[i].kind = "sendMessage" /\ inv[i].pc = "done"
    /\ inv[i].outcome[c] = "gone" /\ inv[i].outcome[d] = "failed"
    /\ inv[i].response.success

Disconnected == TextResponse(200, "Disconnected")
FailedToDisconnect == TextResponse(500, "Failed to disconnect")

\* the DeleteCommand of a disconnect settles
DisconnectStep(i) ==
  /\ inv[i].kind = "disconnect" /\ inv[i].pc = "delete"
  /\ inv'[i].pc = "done"

\* C12 as claimed: a disconnect for a connectionId without a record is
\* answered 200 "Disconnected" and leaves the registry unchanged; after a
\* disconnect answered 200 its connectionId has no record.
C12_DisconnectAlwaysAcks ==
  [][\A i \in Slots :
       DisconnectStep(i) =>
         /\ ~Registered(inv[i].connectionId) =>
              /\ inv'[i].response = Disconnected
              /\ connections' = connections
         /\ inv'[i].response = Disconnected =>
              inv[i].connectionId \notin Ids(connections')]_vars

\* C12 amended: a disconnect for a connectionId without a record leaves the
\* registry unchanged and is answered 200 "Disconnected" unless its
\* DeleteCommand fails, which is answered 500 "Failed to disconnect"; a
\* disconnect answers 200 exactly when its delete succeeded, and then its
\* connectionId has no record and every other record is kept.
C12_DisconnectIdempotent ==
  [][\A i \in Slots :
       DisconnectStep(i) =>
         LET c == inv[i].connectionId
             failed == "deleteConnection" \in inv'[i].faults
         IN /\ inv'[i].response =
                 IF failed THEN FailedToDisconnect ELSE Disconnected
            /\ (failed \/ ~Registered(c)) => connections' = connections
            /\ ~failed =>
                 /\ c \notin Ids(connections')
                 /\ connections' = {r \in connections : r.connectionId # c}]_vars

\* C12 witness: a disconnect that found no record to remove was answered 200
\* while the registry holds the record of another connection
C12_Witness ==
  \E i \in Slots :
    /\ inv[i].kind = "disconnect" /\ inv[i].pc = "done"
    /\ inv[i].response = Disconnected
    /\ inv[i].removed = {} /\ connections # {}

\* the PutCommand of a send's saveMessage succeeds
SaveStep(i) ==
  /\ inv[i].kind = "sendMessage" /\ inv[i].pc = "save"
  /\ inv'[i].persisted

\* the messages of a room
Room(table, roomId) == {m \in table : m.roomId = roomId}

\* createdAt never decreases along a list of messages
ByCreatedAt(list) ==
  \A k \in 1..(Len(list) - 1) : list[k].createdAt <= list[k + 1].createdAt

\* sortKey strictly increases along a list of messages
BySortKey(list) ==
  \A k \in 1..(Len(list) - 1) : StrLess(list[k].sortKey, list[k + 1].sortKey)

\* C13 as claimed: with one invocation at a time, the history of a room
\* after an insertion is the history before it followed by the inserted
\* message, also when the insertion falls into the millisecond of an earlier
\* one, and createdAt never decreases along it.
C13_InsertionOrder ==
  [][\A i \in Slots :
       SaveStep(i) =>
         LET m == CHOOSE x \in inv[i].message : TRUE
             before == getMessages(messages, m.roomId, LimitCap)
             after == getMessages(messages', m.roomId, LimitCap)
         IN after = Append(before, m) /\ ByCreatedAt(after)]_vars

\* C13 amended: the history of a room is in ascending sortKey order and
\* holds the inserted message; when every message already in the room was
\* created in an earlier millisecond whose decimal rendering has as many
\* digits as the new one, the history after the insertion is the history
\* before it followed by the inserted message, in non-decreasing createdAt
\* order.
C13_InsertionOrderAcrossMilliseconds ==
  [][\A i \in Slots :
       SaveStep(i) =>
         LET m == CHOOSE x \in inv[i].message : TRUE
             before == getMessages(messages, m.roomId, LimitCap)
             after == getMessages(messages', m.roomId, LimitCap)
         IN /\ BySortKey(after)
            /\ \E k \in 1..Len(after) : after[k] = m
            /\ (\A o \in Room(messages, m.roomId) :
                  /\ o.createdAt < m.createdAt
                  /\ Len(ToDecimal(o.createdAt)) = Len(ToDecimal(m.createdAt)))
                 => (after = Append(before, m) /\ ByCreatedAt(after))]_vars

\* C13 witness: a room holds two messages inserted one after the other in
\* different milliseconds, and its history lists them in that order
C13_Witness ==
  \E i \in Slots, o \in messages :
    /\ inv[i].kind = "sendMessage" /\ inv[i].persisted
    /\ \E m \in inv[i].message :
         /\ m \in messages /\ o.roomId = m.roomId
         /\ o.createdAt < m.createdAt
         /\ getMessages(messages, m.roomId, LimitCap) = <<o, m>>

\* the invocation is a history fetch whose query succeeded
Fetched(i) ==
  inv[i].kind = "getMessages" /\ inv[i].frame.type = "messageHistory"

\* C14: the history a fetch delivers for a room holding n messages, queried
\* with limit L, has min(n, L) entries, all of that room, in ascending
\* sortKey order, and every message of the room it leaves out is older (by
\* sortKey) than each it lists; a fetch whose delivery went through is
\* answered with the success ack, also for an empty room.
C14_HistoryWindow ==
  \A i \in Slots :
    Fetched(i) =>
      LET room == Room(messages, inv[i].query.roomId)
          data == inv[i].frame.data
      IN /\ Len(data) = Min(Cardinality(room), inv[i].query.limit)
         /\ \A k \in 1..Len(data) : data[k] \in room
         /\ BySortKey(data)
         /\ \A o \in room :
              (\A k \in 1..Len(data) : data[k] # o) =>
                \A k \in 1..Len(data) : StrLess(o.sortKey, data[k].sortKey)
         /\ (inv[i].pc = "done"
               /\ inv[i].sends[inv[i].connectionId] = "fulfilled") =>
              inv[i].response = SuccessResponse(<<>>)

\* C14 witness: a fetch with limit 500 of a room holding more than 100
\* messages delivered 100 of them and left the oldest out
C14_Witness ==
  \E i \in Slots :
    /\ Fetched(i) /\ inv[i].body.limit = JSNumber(500)
    /\ Cardinality(Room(messages, inv[i].query.roomId)) > LimitCap
    /\ Len(inv[i].frame.data) = LimitCap
    /\ inv[i].outcome[inv[i].connectionId] = "delivered"

\* C15: a fetch queries the store with min(requested, 100), or with 50 when
\* the request names no limit, and delivers no more messages than that; a
\* request above the cap is answered like any other.
C15_LimitClamp ==
  \A i \in Slots :
    (inv[i].kind = "getMessages" /\ ~ParseThrows(inv[i].body)) =>
      LET requested == Payload(inv[i].body).limit
      IN /\ inv[i].query.limit =
              IF requested.t = "undefined" THEN 50
              ELSE IF requested.n > 100 THEN 100 ELSE requested.n
         /\ Fetched(i) => Len(inv[i].frame.data) <= inv[i].query.limit
         /\ (inv[i].pc = "done" /\ inv[i].faults = {}
               /\ inv[i].outcome[inv[i].connectionId] = "delivered") =>
              inv[i].response = SuccessResponse(<<>>)

\* C15 witness: a fetch without a limit of a room holding more than 50
\* messages delivered exactly 50 and was acknowledged
C15_Witness ==
  \E i \in Slots :
    /\ Fetched(i) /\ inv[i].body.limit = JSUndefined
    /\ Cardinality(Room(messages, inv[i].query.roomId)) > DefaultLimit
    /\ Len(inv[i].frame.data) = DefaultLimit
    /\ inv[i].pc = "done" /\ inv[i].response.success

\* a step of the history fetch in slot i
GetStep(i) ==
  /\ inv'[i].kind = "getMessages"
  /\ inv'[i].pc # inv[i].pc \/ inv'[i].sends # inv[i].sends

\* C16: every step of a history fetch leaves the message log and the
\* registry records of all other connections unchanged (it removes at most
\* the requester's own record); the fetch never posts to another
\* connection, and what it has posted to the requester is exactly one
\* messageHistory payload once its query has succeeded, nothing before.
C16_HistoryOnlyToRequester ==
  [][\A i \in Slots :
       GetStep(i) =>
         LET c == inv'[i].connectionId
         IN /\ messages' = messages
            /\ connections' \subseteq connections
            /\ \A r \in connections \ connections' : r.connectionId = c
            /\ \A d \in ConnIds \ {c} :
                 inv'[i].posts[d] = <<>> /\ inv'[i].outcome[d] = "none"
            /\ inv'[i].posts[c] =
                 IF inv'[i].pc \in {"settle", "done"} /\ inv'[i].faults # {"getMessages"}
                      /\ ~ParseThrows(inv'[i].body)
                   THEN <<inv'[i].frame>> ELSE <<>>
            /\ inv'[i].posts[c] # <<>> =>
                 inv'[i].frame.type = "messageHistory"]_vars

\* C16 witness: a fetch has delivered the history to its requester while
\* another connection is registered and open
C16_Witness ==
  \E i \in Slots, d \in ConnIds :
    /\ Fetched(i) /\ inv[i].pc = "done"
    /\ inv[i].outcome[inv[i].connectionId] = "delivered"
    /\ Len(inv[i].posts[inv[i].connectionId]) = 1
    /\ d # inv[i].connectionId /\ d \in open /\ Registered(d)

\* C17 as claimed: no step removes or changes a message of the log, every
\* successful save of a send adds exactly one message, and the messageIds
\* in the log are pairwise distinct.
C17_AppendOnly ==
  [][/\ \A m \in messages : m \in messages'
     /\ \A i \in Slots :
          SaveStep(i) => Cardinality(messages') = Cardinality(messages) + 1
     /\ \A m1, m2 \in messages' :
          m1.messageId = m2.messageId => m1 = m2]_vars

\* the PutCommand of the connect in slot i succeeds
ConnectStep(i) ==
  /\ inv[i].kind = "connect" /\ inv[i].pc = "put"
  /\ inv'[i].response = TextResponse(200, "Connected")

\* the DeleteCommand the invocation in slot i issued for the gone
\* recipient c succeeds
CleanupStep(i, c) ==
  /\ inv[i].sends[c] = "deleting" /\ inv[i].outcome[c] = "gone"
  /\ inv'[i].sends[c] = "fulfilled"

\* C18: a record that is new in the registry, or differs from the one its
\* connectionId had, is the record a connect has just stored; a
\* connectionId loses its record only in the delete of a disconnect for it
\* or in the cleanup after a delivery to it was signalled gone; no step of
\* a sendMessage or getMessages invocation adds or changes a record.
C18_RegistryLifecycle ==
  [][/\ \A r \in connections' \ connections :
          \E i \in Slots : ConnectStep(i) /\ inv[i].item = {r}
     /\ \A c \in Ids(connections) \ Ids(connections') :
          \E i \in Slots :
            \/ DisconnectStep(i) /\ inv[i].connectionId = c
            \/ CleanupStep(i, c)
     /\ \A i \in Slots :
          (inv[i].kind \in {"sendMessage", "getMessages"} /\ inv'[i] # inv[i]
             /\ \A j \in Slots \ {i} : ~ConnectStep(j)) =>
            connections' \subseteq connections]_vars

\* C18 witness: a send has returned after the record of a gone recipient
\* was cleaned up, and the record it found for its sender is unchanged
C18_Witness ==
  \E i \in Slots :
    /\ inv[i].kind = "sendMessage" /\ inv[i].pc = "done"
    /\ inv[i].deleted # {} /\ inv[i].sender # {}
    /\ inv[i].sender \subseteq connections

\* the generic failure response of each handler
GenericFailure(kind) ==
  CASE kind = "connect" -> TextResponse(500, "Failed to connect")
    [] kind = "disconnect" -> TextResponse(500, "Failed to disconnect")
    [] kind = "sendMessage" -> ErrorResponse(500, "Failed to send message")
    [] kind = "getMessages" -> ErrorResponse(500, "Failed to get messages")
    [] OTHER -> TextResponse(500, "rejected")

\* C19 as claimed: an invocation in which a store operation failed answers
\* with its handler's generic failure response.
C19_EveryStoreFaultSurfaced ==
  \A i \in Slots :
    (inv[i].pc = "done" /\ inv[i].faults # {}) =>
      inv[i].response = GenericFailure(inv[i].kind)

\* C19 amended: the step in which a store operation of an invocation fails
\* ends the invocation with its handler's generic failure response, except
\* the deleteConnection issued for a recipient signalled gone, whose failure
\* rejects that recipient's delivery for good; that rejection becomes 500
\* "Failed to get messages" in getMessages and is absorbed in the broadcast
\* of sendMessage, which still answers with the success ack.  No failed
\* operation is issued again.
C19_StoreFaultsSurfaced ==
  [][\A i \in Slots :
       /\ (inv'[i].faults # inv[i].faults /\ inv'[i].faults # {}) =>
            \/ /\ inv'[i].pc = "done"
               /\ inv'[i].response = GenericFailure(inv'[i].kind)
            \/ /\ inv'[i].faults \ inv[i].faults = {"sendToConnection"}
               /\ inv'[i].pc = "settle"
               /\ \E c \in ConnIds :
                    inv[i].sends[c] = "deleting" /\ inv'[i].sends[c] = "rejected"
       /\ \A c \in ConnIds :
            (inv[i].sends[c] = "rejected" /\ inv'[i].kind # "idle") =>
              inv'[i].sends[c] = "rejected"
       /\ (inv'[i].pc = "done" /\ inv'[i].faults # {}) =>
            IF inv'[i].kind = "sendMessage"
                 /\ inv'[i].faults = {"sendToConnection"}
              THEN /\ inv'[i].response.success
                   /\ inv'[i].response.statusCode = 200
              ELSE inv'[i].response = GenericFailure(inv'[i].kind)]_vars

\* C19 witness: a send was acknowledged with success although the delete
\* of a gone recipient's record failed, and the record is still there
C19_Witness ==
  \E i \in Slots, c \in ConnIds :
    /\ inv[i].kind = "sendMessage" /\ inv[i].pc = "done"
    /\ inv[i].faults = {"sendToConnection"}
    /\ inv[i].outcome[c] = "gone" /\ Registered(c)
    /\ inv[i].response.success

\* a returned sendMessage or getMessages invocation
Answered(i) ==
  inv[i].kind \in {"sendMessage", "getMessages"} /\ inv[i].pc = "done"

\* a store operation of the invocation failed, or its delivery to the
\* requester failed with an error other than gone
InfrastructureFailed(i) ==
  \/ inv[i].faults # {}
  \/ inv[i].kind = "getMessages"
       /\ inv[i].outcome[inv[i].connectionId] = "failed"

\* the body is not JSON text, or is the JSON value null
Unparsable(body) == body.json \in {"invalid", "null"}

\* C20 as claimed: sendMessage and getMessages answer 500 only when a store
\* or delivery operation failed, and a request whose body is not valid JSON
\* is answered 400.
C20_InvalidInputNever500 ==
  \A i \in Slots :
    Answered(i) =>
      /\ inv[i].response.statusCode = 500 => InfrastructureFailed(i)
      /\ Unparsable(inv[i].body) => inv[i].response.statusCode = 400

\* C20 amended: sendMessage and getMessages answer 500 only when a store or
\* delivery operation failed or the body could not be parsed; an unparsable
\* body is answered with the handler's generic failure although no
\* operation was attempted; a parsable body with missing or blank content
\* is answered 400 "Message content is required", 400 is answered only for
\* that and for an unknown sender, and getMessages never answers 400.
C20_PayloadRejections ==
  \A i \in Slots :
    Answered(i) =>
      /\ inv[i].response.statusCode = 500 =>
           InfrastructureFailed(i) \/ Unparsable(inv[i].body)
      /\ Unparsable(inv[i].body) =>
           /\ inv[i].response = GenericFailure(inv[i].kind)
           /\ inv[i].faults = {} /\ ~inv[i].persisted
           /\ \A c \in ConnIds : inv[i].posts[c] = <<>>
      /\ (inv[i].kind = "sendMessage" /\ ~Unparsable(inv[i].body)
            /\ NoContent(Payload(inv[i].body).content)) =>
           inv[i].response = ContentRequired
      /\ inv[i].response.statusCode = 400 =>
           /\ inv[i].kind = "sendMessage"
           /\ inv[i].response \in {ContentRequired, ConnectionNotFound}
           /\ inv[i].faults = {}
      /\ inv[i].response.statusCode \in {200, 400, 500}

\* C20 witness: a send of a registered connection whose body is not JSON
\* was answered 500 without any operation having failed
C20_Witness ==
  \E i \in Slots :
    /\ inv[i].kind = "sendMessage" /\ inv[i].pc = "done"
    /\ inv[i].body.json = "invalid" /\ Registered(inv[i].connectionId)
    /\ inv[i].response = FailedToSend /\ inv[i].faults = {}

\* C21 as claimed: saveMessage itself rejects a content that is empty after
\* trimming and persists nothing, so the log never holds such a message.
C21_StoreRejectsEmpty ==
  /\ \A m \in messages : Trim(m.content) # <<>>
  /\ \A i \in Slots :
       (inv[i].kind = "saveMessage" /\ inv[i].pc = "done"
          /\ \E m \in inv[i].message : Trim(m.content) = <<>>) =>
         /\ ~inv[i].persisted
         /\ inv[i].response.statusCode # 200

\* C22 as claimed: getAllConnections returns no record whose ttl has passed,
\* so no expired record is the sender found by sendMessage or in the list a
\* broadcast delivers to.
C22_NoExpiredListed ==
  \A i \in Slots :
    /\ \A r \in inv[i].sender : ~TtlExpired(r, now)
    /\ inv[i].listed => \A r \in inv[i].snapshot : ~TtlExpired(r, now)

\* the number of decimal digits of a timestamp
RECURSIVE DigitCount(_)
DigitCount(n) == IF n < 10 THEN 1 ELSE 1 + DigitCount(n \div 10)

C24_HistoryOrderAgrees ==
  \A i, j \in Slots :
    (Fetched(i) /\ Fetched(j)
       /\ inv[i].query.roomId = inv[j].query.roomId) =>
      LET a == inv[i].frame.data
          b == inv[j].frame.data
      IN /\ BySortKey(a)
         /\ \A k, l \in 1..Len(a) :
              \A p, q \in 1..Len(b) :
                (a[k] = b[p] /\ a[l] = b[q] /\ k < l) => p < q

\* C24 witness: two fetches of one room hold different histories with at
\* least two messages in common, the later one listing a message sent in
\* between
C24_Witness ==
  \E i, j \in Slots :
    /\ Fetched(i) /\ Fetched(j)
    /\ inv[i].query.roomId = inv[j].query.roomId
    /\ Len(inv[i].frame.data) = 2
    /\ Len(inv[j].frame.data) = 3
    /\ \A k \in 1..2 : \E p \in 1..3 : inv[i].frame.data[k] = inv[j].frame.data[p]

\* the registry holds a record of c although its channel is closed
DeadRecord(c) == c \notin open /\ c \in Ids(connections)

\* C25: when invocations run to completion, time passes and the table
\* deletes expired items, the record of a connection whose channel is closed
\* does not stay forever: it is removed (by the cleanup of a broadcast that
\* finds the connection gone, by a disconnect, or by the expiry of its ttl)
\* unless the connection id is connected anew.
C25_DeadRecordRemoved ==
  \A c \in ConnIds : DeadRecord(c) ~> ~DeadRecord(c)

\* C25 witness: after a single connect and the loss of its channel, a day
\* has passed and the expired record is gone from the registry
C25_Witness ==
  /\ started = 1 /\ ~Busy(1)
  /\ now > StartTime + MaxTicks
  /\ connections = {} /\ open = {}

\* C26 as claimed: whatever limit a getMessages request names (none, zero,
\* negative, in range, above 100), the limit handed to the store lies in
\* 1..100, so that no request fails because of its limit.
C26_LimitInRange ==
  \A i \in Slots :
    (inv[i].kind = "getMessages" /\ ~Unparsable(inv[i].body)) =>
      inv[i].query.limit \in 1..100

\* C27: a connect whose PutCommand succeeded is answered 200 "Connected",
\* and the registry then holds exactly one record for the connection id:
\* userId and username are the query parameters, or "anonymous" and
\* "Anonymous" where a parameter is absent (or empty), connectedAt is the
\* time of the connect and ttl is floor(connectedAt / 1000) + 86400.
C27_ConnectRecord ==
  \A i \in Slots :
    (inv[i].kind = "connect" /\ inv[i].pc = "done" /\ inv[i].faults = {}) =>
      LET c == inv[i].connectionId
          q == inv[i].params
      IN /\ inv[i].response.statusCode = 200
         /\ inv[i].response = TextResponse(200, "Connected")
         /\ {r \in connections : r.connectionId = c} =
              {[connectionId |-> c,
                userId |-> IF q.userId \in {Absent, ""}
                             THEN "anonymous" ELSE q.userId,
                username |-> IF q.username \in {Absent, ""}
                               THEN "Anonymous" ELSE q.username,
                connectedAt |-> now,
                ttl |-> (now \div 1000) + 86400]}

\* C27 witness: a connect without query parameters succeeded and its record
\* carries the default identity
C27_Witness ==
  \E i \in Slots :
    /\ inv[i].kind = "connect" /\ inv[i].pc = "done" /\ inv[i].faults = {}
    /\ inv[i].params = [userId |-> Absent, username |-> Absent]
    /\ \E r \in connections :
         /\ r.connectionId = inv[i].connectionId
         /\ r.userId = "anonymous" /\ r.username = "Anonymous"

\* text with nothing but white space removed from its two ends
Stripped(text, from) ==
  \E k \in 1..Len(from) :
    /\ k + Len(text) - 1 <= Len(from)
    /\ SubSeq(from, k, k + Len(text) - 1) = text
    /\ \A p \in 1..Len(from) :
         (p < k \/ p > k + Len(text) - 1) => from[p] \in {" ", "\t", "\n"}

\* C28: every message in the log has a content that is not empty and
\* neither starts nor ends with white space, and the message a send has
\* persisted carries the content of its payload with the white space at
\* both ends removed and nothing else changed.
C28_StoredContentTrimmed ==
  /\ \A m \in messages :
       /\ m.content # <<>>
       /\ m.content[1] \notin {" ", "\t", "\n"}
       /\ m.content[Len(m.content)] \notin {" ", "\t", "\n"}
  /\ \A i \in Slots :
       (inv[i].kind = "sendMessage" /\ inv[i].persisted) =>
         \A m \in inv[i].message :
           Stripped(m.content, inv[i].body.content.s)

\* C28 witness: a payload with white space at both ends was persisted
\* without it
C28_Witness ==
  \E i \in Slots :
    /\ inv[i].kind = "sendMessage" /\ inv[i].persisted
    /\ inv[i].body.content.s = <<" ", "h", "i", "\n">>
    /\ \E m \in inv[i].message : m \in messages /\ m.content = <<"h", "i">>

\* C29: a send whose payload names no roomId builds its message for room
\* "global" (one that names a room, for that room); a fetch whose payload
\* names no roomId queries room "global"; every message a fetch delivers
\* is of the room it queried, so a fetch of another room never lists a
\* message of "global"; and a fetch of "global" lists every message of that
\* room that is among the newest `limit` of it.
C29_DefaultRoomRoundTrip ==
  \A i \in Slots :
    /\ inv[i].kind = "sendMessage" =>
         \A m \in inv[i].message :
           m.roomId = IF Payload(inv[i].body).roomId = Absent
                        THEN "global" ELSE Payload(inv[i].body).roomId
    /\ (inv[i].kind = "getMessages" /\ ~Unparsable(inv[i].body)) =>
         inv[i].query.roomId =
           IF Payload(inv[i].body).roomId = Absent
             THEN "global" ELSE Payload(inv[i].body).roomId
    /\ Fetched(i) =>
         LET data == inv[i].frame.data
             room == {m \in messages : m.roomId = inv[i].query.roomId}
         IN /\ \A k \in 1..Len(data) : data[k].roomId = inv[i].query.roomId
            /\ \A m \in room :
                 Cardinality({o \in room : StrLess(m.sortKey, o.sortKey)})
                     < inv[i].query.limit =>
                   \E k \in 1..Len(data) : data[k] = m

\* C29 witness: after a send without roomId, a fetch without roomId has
\* delivered the stored message of room "global"
C29_Witness ==
  \E i \in Slots :
    /\ Fetched(i) /\ inv[i].body.roomId = Absent
    /\ Len(inv[i].frame.data) = 1
    /\ inv[i].frame.data[1] \in messages
    /\ inv[i].frame.data[1].roomId = "global"

\* the step in which the broadcast of a send lists the registry
ListingStep(i) ==
  /\ inv[i].kind = "sendMessage" /\ inv[i].pc = "scan"
  /\ inv'[i].listed

\* C30: the list a send's broadcast delivers to is the registry as it is at
\* the moment of the listing, whatever the sender lookup saw before: the
\* frame is posted once to each connection registered then and to no other
\* one, so a connection removed since the lookup (the sender included) gets
\* no attempt; after the listing the invocation posts nothing more, so a
\* connection registering later never receives the message.
C30_FreshSnapshot ==
  [][\A i \in Slots :
       /\ ListingStep(i) =>
            /\ inv'[i].snapshot = connections
            /\ \A c \in ConnIds :
                 inv'[i].posts[c] =
                   IF \E r \in connections : r.connectionId = c
                     THEN <<inv'[i].frame>> ELSE <<>>
       /\ (inv[i].kind = "sendMessage" /\ inv[i].listed /\ inv'[i].listed) =>
            /\ inv'[i].snapshot = inv[i].snapshot
            /\ inv'[i].posts = inv[i].posts]_vars

\* C30 witness: the sender found by the lookup was removed from the
\* registry before the listing, and the broadcast made no attempt to it
C30_Witness ==
  \E i \in Slots :
    /\ inv[i].kind = "sendMessage" /\ inv[i].listed
    /\ inv[i].sender # {}
    /\ inv[i].connectionId \notin Ids(inv[i].snapshot)
    /\ inv[i].posts[inv[i].connectionId] = <<>>

\* the step in which a post of a send's newMessage frame to c is delivered
DeliveryStep(i, c) ==
  /\ inv[i].kind = "sendMessage"
  /\ inv[i].outcome[c] = "none"
  /\ inv'[i].outcome[c] = "delivered"

\* C31 as claimed: whenever a newMessage frame is delivered to a connection,
\* the message it carries is in the message log at that moment.
C31_DeliveredIsInLog ==
  [][\A i \in Slots, c \in ConnIds :
       DeliveryStep(i, c) =>
         /\ inv[i].frame.type = "newMessage"
         /\ \A k \in 1..Len(inv[i].frame.data) :
              inv[i].frame.data[k] \in messages]_vars

\* a disconnect of c, or the cleanup after a gone signal for c, is under way
Disconnecting(c) ==
  \E i \in Slots :
    \/ inv[i].kind = "disconnect" /\ inv[i].connectionId = c
          /\ inv[i].pc = "delete"
    \/ inv[i].sends[c] = "deleting"

FetchFailed(i, how) ==
  /\ Fetched(i) /\ inv[i].pc = "done"
  /\ inv[i].outcome[inv[i].connectionId] = how

\* C33 as claimed: a history fetch whose requester was gone at the delivery
\* has removed the requester's record and returns the success ack; one whose
\* delivery failed otherwise returns 500 "Failed to get messages" and has
\* removed nothing.
C33_GoneRequesterAcked ==
  \A i \in Slots :
    /\ FetchFailed(i, "gone") =>
         /\ inv[i].connectionId \notin Ids(connections)
         /\ inv[i].response = SuccessResponse(<<>>)
    /\ FetchFailed(i, "failed") =>
         /\ inv[i].response = ErrorResponse(500, "Failed to get messages")
         /\ inv[i].deleted = {}

\* C33 amended: a history fetch whose requester was gone at the delivery
\* issues a delete of the requester's record; when that delete succeeds the
\* record is removed and the fetch returns the success ack, when it fails
\* the record stays and the fetch returns 500 "Failed to get messages".  A
\* fetch whose delivery failed otherwise returns that 500 and has removed
\* nothing.
C33_GoneRequesterCleanup ==
  \A i \in Slots :
    /\ FetchFailed(i, "gone") =>
         LET c == inv[i].connectionId
         IN IF inv[i].sends[c] = "fulfilled"
              THEN /\ inv[i].deleted = {c}
                   /\ c \notin Ids(connections)
                   /\ inv[i].response = SuccessResponse(<<>>)
              ELSE /\ inv[i].sends[c] = "rejected"
                   /\ "sendToConnection" \in inv[i].faults
                   /\ inv[i].deleted = {}
                   /\ inv[i].response =
                        ErrorResponse(500, "Failed to get messages")
    /\ FetchFailed(i, "failed") =>
         /\ inv[i].response = ErrorResponse(500, "Failed to get messages")
         /\ inv[i].deleted = {}

\* C33 witness: a fetch of a registered requester whose channel had closed
\* removed the record and was acknowledged
C33_Witness ==
  \E i \in Slots :
    /\ FetchFailed(i, "gone")
    /\ inv[i].deleted = {inv[i].connectionId}
    /\ started = 2
    /\ inv[i].response = SuccessResponse(<<>>)

\* the message event the client has just handled, in a step of the client
Handled(type) ==
  /\ client'.calls # client.calls
  /\ client'.last.call = "onmessage"
  /\ client'.last.wire.json = "object"
  /\ client'.last.wire.type = type

\* C34: after a messageHistory frame the message list is the array of the
\* payload, or empty when the payload is no array; a newMessage frame
\* appends one entry to the list and changes nothing before it; a frame
\* of any other type, a value that is no object and a text that is no JSON
\* leave the list as it is, and a string type that is neither of the two
\* sets connectionError to "Unknown message type".
C34_ClientMessageHandling ==
  [][(client'.calls # client.calls /\ client'.last.call = "onmessage") =>
       LET wire == client'.last.wire
       IN /\ Handled("messageHistory") =>
               client'.messages = IF wire.array THEN wire.items ELSE <<>>
          /\ Handled("newMessage") =>
               /\ Len(client'.messages) = Len(client.messages) + 1
               /\ SubSeq(client'.messages, 1, Len(client.messages)) =
                    client.messages
               /\ wire.items # <<>> =>
                    client'.messages[Len(client'.messages)] = wire.items[1]
          /\ ~(Handled("messageHistory") \/ Handled("newMessage")) =>
               client'.messages = client.messages
          /\ (wire.json = "object"
                /\ wire.type \notin {Absent, "messageHistory", "newMessage"}) =>
               client'.connectionError = "Unknown message type"]_vars

\* C34 witness: a history of two entries followed by a new message
C34_Witness ==
  /\ client.last.call = "onmessage"
  /\ client.last.wire.type = "newMessage"
  /\ Len(client.messages) = 3
  /\ client.messages[3] = client.last.wire.items[1]

\* a call or callback of the client has run in this step
ClientStep(call) ==
  client'.calls # client.calls /\ client'.last.call = call

\* C37: isConnected is true only while the current socket exists and is
\* open, and the message list changes only in the message event of the
\* current socket (or in the reset of disconnect), whatever connects,
\* disconnects and socket callbacks have run, callbacks of a replaced or
\* disconnected socket included.
C37_CurrentSocketOnly ==
  [][/\ client'.isConnected =>
          /\ client'.socket # Absent
          /\ client'.readyState[client'.socket] = "open"
     /\ client'.messages # client.messages =>
          \/ ClientStep("disconnect")
          \/ /\ client'.last.call = "onmessage"
             /\ client'.last.socket = client.socket]_vars

\* no frame can be sent: there is no current socket or it is not open
Unopened(state) == ~CanSend(state)

\* C38: disconnect leaves socket null, isConnected false, the list empty
\* and connectionError null; from then on the current socket is set only
\* by connect and becomes open only in its own open event, and until that
\* event sendMessage and getMessages put no frame on any socket.
C38_DisconnectResets ==
  [][/\ ClientStep("disconnect") =>
          /\ client'.socket = Absent
          /\ client'.isConnected = FALSE
          /\ client'.messages = <<>>
          /\ client'.connectionError = Absent
     /\ (client.socket = Absent /\ client'.socket # Absent) =>
          /\ ClientStep("connect")
          /\ client'.readyState[client'.socket] = "connecting"
     /\ (Unopened(client) /\ ~Unopened(client')) =>
          /\ ClientStep("onopen")
          /\ client'.last.socket = client'.socket
     /\ (Unopened(client) /\ ~ClientStep("onopen")) =>
          client'.outbox = client.outbox
     /\ (ClientStep("sendMessage") \/ ClientStep("getMessages")) =>
          \A c \in ConnIds :
            client'.outbox[c] # client.outbox[c] =>
              c = client.socket /\ client.readyState[c] = "open"]_vars

\* C38 witness: after connect, open and disconnect, a call of
\* sendMessage has sent nothing
C38_Witness ==
  /\ client.last.call = "sendMessage"
  /\ client.socket = Absent
  /\ client.messages = <<>>
  /\ \E c \in ConnIds :
       /\ client.readyState[c] = "closing"
       /\ Len(client.outbox[c]) = 1

\* the entries of a message list
Listed(list) == {list[k] : k \in 1..Len(list)}

\* C35: the message list of a client never holds the same messageId at
\* two positions, however the sender's save and broadcast interleave with
\* the client's connect, its history fetch on open and the arrival of the
\* frames.
C35_NoDuplicateInList ==
  \A k, l \in 1..Len(client.messages) :
    client.messages[k].messageId = client.messages[l].messageId => k = l

\* C36: a message appended by a newMessage frame stays in the list until
\* the client disconnects, also when a history requested earlier arrives
\* after the frame.
C36_PushedStays ==
  \A entry \in client.pushed : entry \in Listed(client.messages)

====
